---- MODULE Spec2Model ----
(***************************************************************************)
(* The SPARQL repair pipeline of                                           *)
(*   src/TableInstruct/Question Answering/SPARQL/post.py                   *)
(* A text is a sequence of one-character strings.  Every pass of the       *)
(* pipeline is an operator computed the way the Python code (and the       *)
(* regular expressions it uses) computes it; the state machine below       *)
(* steps fix_query through its passes for every row of a data frame.       *)
(***************************************************************************)
EXTENDS Integers, Sequences, FiniteSets, TLC

\* ------------------------------------------------------------------------
\* Characters and character classes (Python's re classes \s, \d, \w)
\* ------------------------------------------------------------------------
LowerLetters == <<"a","b","c","d","e","f","g","h","i","j","k","l","m",
                  "n","o","p","q","r","s","t","u","v","w","x","y","z">>
UpperLetters == <<"A","B","C","D","E","F","G","H","I","J","K","L","M",
                  "N","O","P","Q","R","S","T","U","V","W","X","Y","Z">>
Digits == <<"0","1","2","3","4","5","6","7","8","9">>

LowerSet == {LowerLetters[i] : i \in 1..26}
UpperSet == {UpperLetters[i] : i \in 1..26}
DigitSet == {Digits[i] : i \in 1..10}

\* \s and str.strip(): the ASCII white space a TLA+ string can hold
IsSpace(c) == c \in {" ", "\t", "\n", "\r", "\f"}
IsDigit(c) == c \in DigitSet
IsAlpha(c) == c \in LowerSet \/ c \in UpperSet
IsWord(c)  == IsAlpha(c) \/ IsDigit(c) \/ c = "_"

\* str.lower() of one character
ToLower(c) ==
  IF c \in UpperSet
  THEN LowerLetters[CHOOSE i \in 1..26 : UpperLetters[i] = c]
  ELSE c

\* ------------------------------------------------------------------------
\* String helpers
\* ------------------------------------------------------------------------
\* s[i:] in Python terms, with i a 1-based position
From(s, i) == SubSeq(s, i, Len(s))

\* s.count(c)
RECURSIVE CountFrom(_, _, _)
CountFrom(s, c, i) ==
  IF i > Len(s) THEN 0
  ELSE (IF s[i] = c THEN 1 ELSE 0) + CountFrom(s, c, i + 1)
Count(s, c) == CountFrom(s, c, 1)

\* s.replace(a, b) for single characters
ReplaceChar(s, a, b) == [k \in 1..Len(s) |-> IF s[k] = a THEN b ELSE s[k]]

\* s.replace(a, "")
RECURSIVE RemoveCharFrom(_, _, _)
RemoveCharFrom(s, a, i) ==
  IF i > Len(s) THEN <<>>
  ELSE (IF s[i] = a THEN <<>> ELSE <<s[i]>>) \o RemoveCharFrom(s, a, i + 1)
RemoveChar(s, a) == RemoveCharFrom(s, a, 1)

\* first position >= i holding c, 0 when there is none
RECURSIVE FindChar(_, _, _)
FindChar(s, c, i) ==
  IF i > Len(s) THEN 0
  ELSE IF s[i] = c THEN i
  ELSE FindChar(s, c, i + 1)

\* last position holding c, 0 when there is none
RECURSIVE FindLastFrom(_, _, _)
FindLastFrom(s, c, i) ==
  IF i < 1 THEN 0
  ELSE IF s[i] = c THEN i
  ELSE FindLastFrom(s, c, i - 1)
FindLast(s, c) == FindLastFrom(s, c, Len(s))

\* the literal lit stands at position i of s
MatchAt(s, i, lit) ==
  /\ i >= 1
  /\ i + Len(lit) - 1 <= Len(s)
  /\ \A k \in 1..Len(lit) : s[i + k - 1] = lit[k]

\* the same under re.IGNORECASE (lit is written in lower case)
MatchAtCI(s, i, lit) ==
  /\ i >= 1
  /\ i + Len(lit) - 1 <= Len(s)
  /\ \A k \in 1..Len(lit) : ToLower(s[i + k - 1]) = lit[k]

\* the character at position i is a word character (FALSE outside s)
WordAt(s, i) == i >= 1 /\ i <= Len(s) /\ IsWord(s[i])

\* \b between positions i-1 and i
Boundary(s, i) == WordAt(s, i - 1) # WordAt(s, i)

\* end of the greedy run \s* that starts at i: first j >= i with s[j] no space
RECURSIVE SkipSpaces(_, _)
SkipSpaces(s, i) ==
  IF i <= Len(s) /\ IsSpace(s[i]) THEN SkipSpaces(s, i + 1) ELSE i

\* end of the greedy run \w* that starts at i
RECURSIVE SkipWord(_, _)
SkipWord(s, i) ==
  IF i <= Len(s) /\ IsWord(s[i]) THEN SkipWord(s, i + 1) ELSE i

\* str.lstrip(), str.rstrip(), str.strip()
LStrip(s) == From(s, SkipSpaces(s, 1))
RECURSIVE RStripTo(_, _)
RStripTo(s, n) ==
  IF n >= 1 /\ IsSpace(s[n]) THEN RStripTo(s, n - 1) ELSE SubSeq(s, 1, n)
RStrip(s) == RStripTo(s, Len(s))
Strip(s) == LStrip(RStrip(s))

\* sep.join(parts)
RECURSIVE JoinFrom(_, _, _)
JoinFrom(parts, sep, i) ==
  IF i > Len(parts) THEN <<>>
  ELSE IF i = Len(parts) THEN parts[i]
  ELSE parts[i] \o sep \o JoinFrom(parts, sep, i + 1)
Join(parts, sep) == JoinFrom(parts, sep, 1)

\* unit * n
RECURSIVE Repeat(_, _)
Repeat(unit, n) == IF n <= 0 THEN <<>> ELSE unit \o Repeat(unit, n - 1)

\* str(n) for a natural number n
RECURSIVE Decimal(_)
Decimal(n) ==
  IF n < 10 THEN <<Digits[n + 1]>>
  ELSE Decimal(n \div 10) \o <<Digits[(n % 10) + 1]>>

\* ------------------------------------------------------------------------
\* Pass 1: replace_square_brackets_globally
\* ------------------------------------------------------------------------
\* BRACKET_BLOCK.sub(r"{\1}", q): each non-greedy [ ... ] span, left to right
RECURSIVE BracketBlockSub(_, _)
BracketBlockSub(q, i) ==
  LET a == FindChar(q, "[", i)
      b == IF a = 0 THEN 0 ELSE FindChar(q, "]", a + 1)
  IN IF a = 0 \/ b = 0 THEN From(q, i)
     ELSE SubSeq(q, i, a - 1) \o <<"{">> \o SubSeq(q, a + 1, b - 1) \o <<"}">>
          \o BracketBlockSub(q, b + 1)

kwWhere == <<"w","h","e","r","e">>
txtWHERE == <<"W","H","E","R","E">>

\* re.sub(r"(?i)\bWHERE\s*\[", "WHERE {", q)
RECURSIVE WhereBracketSub(_, _)
WhereBracketSub(q, i) ==
  IF i > Len(q) THEN <<>>
  ELSE LET j == SkipSpaces(q, i + 5)
       IN IF Boundary(q, i) /\ MatchAtCI(q, i, kwWhere) /\ j <= Len(q) /\ q[j] = "["
          THEN txtWHERE \o <<" ", "{">> \o WhereBracketSub(q, j + 1)
          ELSE <<q[i]>> \o WhereBracketSub(q, i + 1)

\* a variant without the replacement of the stray brackets
replace_square_brackets_blocks_only(q) ==
  WhereBracketSub(BracketBlockSub(q, 1), 1)

replace_square_brackets_globally(q) ==
  LET q1 == BracketBlockSub(q, 1)
      q2 == WhereBracketSub(q1, 1)
  IN ReplaceChar(ReplaceChar(q2, "[", "{"), "]", "}")

\* ------------------------------------------------------------------------
\* Pass 2: map_unknown_prefixes
\* ------------------------------------------------------------------------
\* re.sub(r"\b<pat>", rep, text) for a literal pat that starts with a letter
RECURSIVE PrefixSub(_, _, _, _)
PrefixSub(text, pat, rep, i) ==
  IF i > Len(text) THEN <<>>
  ELSE IF Boundary(text, i) /\ MatchAt(text, i, pat)
       THEN rep \o PrefixSub(text, pat, rep, i + Len(pat))
       ELSE <<text[i]>> \o PrefixSub(text, pat, rep, i + 1)

pfxWdt == <<"w","d","t",":">>
pfxPs  == <<"p","s",":">>
pfxP   == <<"p",":">>
pfxWd  == <<"w","d",":">>
pfxDbo == <<"d","b","o",":">>
pfxDbr == <<"d","b","r",":">>

\* a variant without the rewrite of ps:
map_unknown_prefixes_without_ps(text) ==
  LET t1 == PrefixSub(text, pfxWdt, pfxDbo, 1)
      t3 == PrefixSub(t1, pfxP, pfxDbo, 1)
  IN PrefixSub(t3, pfxWd, pfxDbr, 1)

map_unknown_prefixes(text) ==
  LET t1 == PrefixSub(text, pfxWdt, pfxDbo, 1)
      t2 == PrefixSub(t1, pfxPs, pfxDbo, 1)
      t3 == PrefixSub(t2, pfxP, pfxDbo, 1)
  IN PrefixSub(t3, pfxWd, pfxDbr, 1)

\* ------------------------------------------------------------------------
\* Pass 3: sanitize_curie_localparts
\* ------------------------------------------------------------------------
\* [A-Za-z0-9_-]
IsCuriePrefixChar(c) == IsWord(c) \/ c = "-"
\* [^\s\.\,\;\)\}\{]
IsCurieLocalChar(c) == ~IsSpace(c) /\ c \notin {".", ",", ";", ")", "}", "{"}

RECURSIVE SkipCuriePrefix(_, _)
SkipCuriePrefix(s, i) ==
  IF i <= Len(s) /\ IsCuriePrefixChar(s[i]) THEN SkipCuriePrefix(s, i + 1) ELSE i

RECURSIVE SkipCurieLocal(_, _)
SkipCurieLocal(s, i) ==
  IF i <= Len(s) /\ IsCurieLocalChar(s[i]) THEN SkipCurieLocal(s, i + 1) ELSE i

\* a variant of _fix that replaces the spaces only
CurieFixSpacesOnly(local) == ReplaceChar(local, " ", "_")

\* _fix: local.replace(":", "_").replace(" ", "_")
CurieFix(local) == ReplaceChar(ReplaceChar(local, ":", "_"), " ", "_")

\* CURIE_RX.sub(_fix, text)
RECURSIVE CurieSub(_, _)
CurieSub(text, i) ==
  IF i > Len(text) THEN <<>>
  ELSE LET c == SkipCuriePrefix(text, i + 1)   \* position of the ':'
           e == SkipCurieLocal(text, c + 1)    \* one past the local part
       IN IF /\ Boundary(text, i)
             /\ (IsAlpha(text[i]) \/ text[i] = "_")
             /\ c <= Len(text) /\ text[c] = ":"
             /\ e > c + 1
          THEN SubSeq(text, i, c) \o CurieFix(SubSeq(text, c + 1, e - 1))
               \o CurieSub(text, e)
          ELSE <<text[i]>> \o CurieSub(text, i + 1)

sanitize_curie_localparts(text) == CurieSub(text, 1)

\* ------------------------------------------------------------------------
\* Pass 4: clean_bad_chars_and_quotes
\* ------------------------------------------------------------------------
\* re.sub(r"(?<![<=>!])>(?!\s)", " ", q): the lookarounds read the text as it
\* was before the substitution
LoneGtSub(q) ==
  [k \in 1..Len(q) |->
     IF /\ q[k] = ">"
        /\ (k = 1 \/ q[k - 1] \notin {"<", "=", ">", "!"})
        /\ (k = Len(q) \/ ~IsSpace(q[k + 1]))
     THEN " " ELSE q[k]]

\* the single-quote step: both branches of the if remove every quote
StripSingleQuotes(q) ==
  IF Count(q, "'") % 2 # 0 THEN RemoveChar(q, "'") ELSE RemoveChar(q, "'")

\* \d{1,2}:\d{2} with n leading digits stands at i
ClockAt(q, i, n) ==
  /\ i + n + 2 <= Len(q)
  /\ \A k \in 0..(n - 1) : IsDigit(q[i + k])
  /\ q[i + n] = ":"
  /\ IsDigit(q[i + n + 1]) /\ IsDigit(q[i + n + 2])
  /\ Boundary(q, i + n + 3)
  /\ (i + n + 3 > Len(q) \/ q[i + n + 3] # "\"")

\* re.sub(r'(?<!")\b(\d{1,2}:\d{2})\b(?!")', r'"\1"', q)
RECURSIVE ClockSub(_, _)
ClockSub(q, i) ==
  IF i > Len(q) THEN <<>>
  ELSE LET ok == (i = 1 \/ q[i - 1] # "\"") /\ Boundary(q, i)
           n  == IF ok /\ ClockAt(q, i, 2) THEN 2
                 ELSE IF ok /\ ClockAt(q, i, 1) THEN 1 ELSE 0
       IN IF n > 0
          THEN <<"\"">> \o SubSeq(q, i, i + n + 2) \o <<"\"">> \o ClockSub(q, i + n + 3)
          ELSE <<q[i]>> \o ClockSub(q, i + 1)

\* inner.split(",")
RECURSIVE SplitOn(_, _, _, _)
SplitOn(s, c, i, buf) ==
  IF i > Len(s) THEN <<buf>>
  ELSE IF s[i] = c THEN <<buf>> \o SplitOn(s, c, i + 1, <<>>)
  ELSE SplitOn(s, c, i + 1, Append(buf, s[i]))

txtCONTAINS == <<"C","O","N","T","A","I","N","S","(">>
kwContains == <<"c","o","n","t","a","i","n","s">>

fix_contains(inner) ==
  LET parts == SplitOn(inner, ",", 1, <<>>)
  IN IF Len(parts) >= 2
     THEN txtCONTAINS \o Strip(parts[1]) \o <<",", " ">> \o Strip(parts[2]) \o <<")">>
     ELSE txtCONTAINS \o inner \o <<")">>

\* start of the run of spaces that ends just before position m, not before k
RECURSIVE SpaceRunStart(_, _, _)
SpaceRunStart(s, k, m) ==
  IF m > k /\ IsSpace(s[m - 1]) THEN SpaceRunStart(s, k, m - 1) ELSE m

\* re.sub(r"(?i)CONTAINS\s*\(\s*(.*?)\s*\)", fix_contains, q); '.' matches no "\n"
RECURSIVE ContainsSub(_, _)
ContainsSub(q, i) ==
  IF i > Len(q) THEN <<>>
  ELSE LET j == SkipSpaces(q, i + 8)                     \* the '('
           k == SkipSpaces(q, j + 1)                     \* start of the group
           m == FindChar(q, ")", k)                      \* the closing ')'
           e == IF m = 0 THEN 0 ELSE SpaceRunStart(q, k, m)   \* end of the group
       IN IF /\ MatchAtCI(q, i, kwContains)
             /\ j <= Len(q) /\ q[j] = "("
             /\ m # 0
             /\ \A x \in k..(e - 1) : q[x] # "\n"
          THEN fix_contains(SubSeq(q, k, e - 1)) \o ContainsSub(q, m + 1)
          ELSE <<q[i]>> \o ContainsSub(q, i + 1)

kwAs == <<"a","s">>

\* re.sub(r"(?i)\bAS\s+([A-Za-z_]\w*)", r"AS ?\1", q)
RECURSIVE AsAliasSub(_, _)
AsAliasSub(q, i) ==
  IF i > Len(q) THEN <<>>
  ELSE LET j == SkipSpaces(q, i + 2)
           e == SkipWord(q, j)
       IN IF /\ Boundary(q, i) /\ MatchAtCI(q, i, kwAs)
             /\ j > i + 2
             /\ j <= Len(q) /\ (IsAlpha(q[j]) \/ q[j] = "_")
          THEN <<"A", "S", " ", "?">> \o SubSeq(q, j, e - 1) \o AsAliasSub(q, e)
          ELSE <<q[i]>> \o AsAliasSub(q, i + 1)

clean_bad_chars_and_quotes(q) ==
  LET q1 == ReplaceChar(q, "&", " ")
      q2 == LoneGtSub(q1)
      q3 == StripSingleQuotes(q2)
      q4 == ClockSub(q3, 1)
      q5 == ContainsSub(q4, 1)
  IN AsAliasSub(q5, 1)

\* ------------------------------------------------------------------------
\* Pass 5: re.sub(r"(?i)\bwhere\b", "WHERE", q), and the keyword rewrites of
\* normalize_query_text, which have the same shape
\* ------------------------------------------------------------------------
RECURSIVE KeywordSub(_, _, _, _)
KeywordSub(q, kw, rep, i) ==
  IF i > Len(q) THEN <<>>
  ELSE IF Boundary(q, i) /\ MatchAtCI(q, i, kw) /\ Boundary(q, i + Len(kw))
       THEN rep \o KeywordSub(q, kw, rep, i + Len(kw))
       ELSE <<q[i]>> \o KeywordSub(q, kw, rep, i + 1)

NormalizeWhereKeyword(q) == KeywordSub(q, kwWhere, txtWHERE, 1)

\* ------------------------------------------------------------------------
\* Pass 6a: extract_where_body
\* ------------------------------------------------------------------------
\* leftmost i where (?is)\bWHERE\s*\{(.*)\}\s* matches; 0 when it matches nowhere.
\* Returned is the position of the '{'.
RECURSIVE WhereBraceSearch(_, _)
WhereBraceSearch(query, i) ==
  IF i > Len(query) THEN 0
  ELSE LET j == SkipSpaces(query, i + 5)
       IN IF /\ Boundary(query, i) /\ MatchAtCI(query, i, kwWhere)
             /\ j <= Len(query) /\ query[j] = "{"
             /\ FindLast(query, "}") > j
          THEN j
          ELSE WhereBraceSearch(query, i + 1)

\* leftmost '{' where (?is)\{(.*)\}\s* matches; 0 when there is none
FirstBraceSearch(query) ==
  LET j == FindChar(query, "{", 1)
  IN IF j # 0 /\ FindLast(query, "}") > j THEN j ELSE 0

\* (head, body, tail), or found = FALSE for (None, None, None)
extract_where_body(query) ==
  LET w == WhereBraceSearch(query, 1)
      j == IF w # 0 THEN w ELSE FirstBraceSearch(query)
      r == FindLast(query, "}")
  IN IF j = 0
     THEN [found |-> FALSE, head |-> <<>>, body |-> <<>>, tail |-> <<>>]
     ELSE [found |-> TRUE,
           head  |-> SubSeq(query, 1, j),
           body  |-> SubSeq(query, j + 1, r - 1),
           tail  |-> From(query, r)]

\* ------------------------------------------------------------------------
\* Pass 6b: smart_repair_where and its helpers
\* ------------------------------------------------------------------------
\* split_clauses: the scan keeps (out, buf, depth); a clause is kept when its
\* stripped text is not empty
\* a variant without the floor: depth -= 1
DepthStepNoFloor(depth, ch) ==
  IF ch \in {"{", "(", "["} THEN depth + 1
  ELSE IF ch \in {"}", ")", "]"} THEN depth - 1
  ELSE depth

\* if ch in "{([": depth += 1 / elif ch in "})]": depth = max(0, depth - 1)
DepthStep(depth, ch) ==
  IF ch \in {"{", "(", "["} THEN depth + 1
  ELSE IF ch \in {"}", ")", "]"}
       THEN (IF depth - 1 > 0 THEN depth - 1 ELSE 0)
       ELSE depth

RECURSIVE SplitClausesFrom(_, _, _, _)
SplitClausesFrom(where_body, i, buf, depth) ==
  IF i > Len(where_body)
  THEN (IF Strip(buf) # <<>> THEN <<Strip(buf)>> ELSE <<>>)
  ELSE LET ch == where_body[i]
           d  == DepthStep(depth, ch)
       IN IF ch = "." /\ d = 0
          THEN (IF Strip(buf) # <<>> THEN <<Strip(buf)>> ELSE <<>>)
               \o SplitClausesFrom(where_body, i + 1, <<>>, d)
          ELSE SplitClausesFrom(where_body, i + 1, Append(buf, ch), d)

split_clauses(where_body) == SplitClausesFrom(where_body, 1, <<>>, 0)

\* re.findall(r"[^\s]+", cl)
RECURSIVE TokenizeFrom(_, _, _)
TokenizeFrom(cl, i, buf) ==
  IF i > Len(cl) THEN (IF buf # <<>> THEN <<buf>> ELSE <<>>)
  ELSE IF IsSpace(cl[i])
       THEN (IF buf # <<>> THEN <<buf>> ELSE <<>>) \o TokenizeFrom(cl, i + 1, <<>>)
       ELSE TokenizeFrom(cl, i + 1, Append(buf, cl[i]))
Tokenize(cl) == TokenizeFrom(cl, 1, <<>>)

\* a variant without the test for a leading ':'
looks_like_subject_any_colon(tok) ==
  \/ (Len(tok) >= 1 /\ tok[1] = "?")
  \/ (Len(tok) >= 1 /\ tok[1] = "<" /\ tok[Len(tok)] = ">")
  \/ FindChar(tok, ":", 1) # 0

looks_like_subject(tok) ==
  \/ (Len(tok) >= 1 /\ tok[1] = "?")
  \/ (Len(tok) >= 1 /\ tok[1] = "<" /\ tok[Len(tok)] = ">")
  \/ (FindChar(tok, ":", 1) # 0 /\ tok[1] # ":")

RECURSIVE CollapseFrom(_, _, _)
CollapseFrom(tokens, i, out) ==
  IF i > Len(tokens) THEN out
  ELSE LET t == tokens[i]
       IN IF out # <<>> /\ Len(t) >= 1 /\ t[1] = "?" /\ out[Len(out)] = t
          THEN CollapseFrom(tokens, i + 1, out)
          ELSE CollapseFrom(tokens, i + 1, Append(out, t))
collapse_adjacent_duplicate_vars(tokens) == CollapseFrom(tokens, 1, <<>>)

BlockKeywords ==
  { <<"f","i","l","t","e","r">>, <<"o","p","t","i","o","n","a","l">>,
    <<"v","a","l","u","e","s">>, <<"b","i","n","d">>, <<"m","i","n","u","s">>,
    <<"s","e","r","v","i","c","e">>, <<"g","r","a","p","h">>,
    <<"u","n","i","o","n">> }

\* re.match(r"(?i)^(filter|optional|values|bind|minus|service|graph|union)\b", tok)
IsBlockKeyword(tok) ==
  \E kw \in BlockKeywords : MatchAtCI(tok, 1, kw) /\ Boundary(tok, Len(kw) + 1)

\* while tokens and tokens[-1] in {";", ","}: tokens.pop()
RECURSIVE StripTrailingPunct(_)
StripTrailingPunct(tokens) ==
  IF tokens # <<>> /\ tokens[Len(tokens)] \in {<<";">>, <<",">>}
  THEN StripTrailingPunct(SubSeq(tokens, 1, Len(tokens) - 1))
  ELSE tokens

RECURSIVE AllDigits(_, _, _)
AllDigits(tok, a, b) ==
  IF a > b THEN TRUE ELSE IsDigit(tok[a]) /\ AllDigits(tok, a + 1, b)

\* a variant that takes no token for a number
IsNumericNever(tok) == FALSE

\* re.fullmatch(r"\d+(\.\d+)?", tok)
IsNumeric(tok) ==
  LET d == FindChar(tok, ".", 1)
  IN IF d = 0 THEN Len(tok) >= 1 /\ AllDigits(tok, 1, Len(tok))
     ELSE /\ d > 1 /\ d < Len(tok)
          /\ AllDigits(tok, 1, d - 1) /\ AllDigits(tok, d + 1, Len(tok))

\* a variant that keeps the counter of the previous call (a module-level counter)
InitialCounterKept(previous) == previous

\* vcounter = 0 at the start of every smart_repair_where call
InitialCounter(previous) == 0

\* fresh_var(): the counter after the call, and the name it returns
FreshCounter(vcounter) == vcounter + 1
\* a variant that names the variable before the counter is incremented
FreshNameFromZero(vcounter) == <<"?", "v">> \o Decimal(vcounter - 1)
FreshName(vcounter) == <<"?", "v">> \o Decimal(vcounter)

\* the tests that send a clause to the two unpacking branches
\* variants with the comparison off
IsTwoTokensAtMost(tokens) == Len(tokens) <= 2
IsFourTokensMore(tokens) == Len(tokens) > 4
IsTwoTokens(tokens) == Len(tokens) = 2
IsFourTokens(tokens) == Len(tokens) = 4

\* the test that drops a four-token clause: tokens[1] numeric or a plain word
BadStackedPredicate(p1) ==
  IsNumeric(p1) \/ (FindChar(p1, ":", 1) = 0 /\ ~(Len(p1) >= 1 /\ p1[1] = "?"))

\* a variant that keeps the tokens of such a clause, joined by spaces
KeepUnusable(tokens) == IF tokens = <<>> THEN <<>> ELSE <<Join(tokens, <<" ">>)>>

\* "# Otherwise, if still unusable, skip the clause.": what the last
\* "continue" of the loop appends to repaired
SkipUnusable(tokens) == <<>>

\* "a b c": an f-string of tokens joined by single spaces
Triple(s, p, o) == s \o <<" ">> \o p \o <<" ">> \o o

\* One round of the loop "for cl in clauses": what the round appends to
\* repaired, the counter after it, how often it called fresh_var(), and
\* whether a tuple unpacking raised ValueError (s, p = tokens needs 2 tokens;
\* s, p1, p2, o = tokens needs 4).
RepairClause(clause, vcounter) ==
  LET cl      == Strip(clause)
      toks0   == collapse_adjacent_duplicate_vars(Tokenize(cl))
      tokens  == StripTrailingPunct(toks0)
      none    == [emit |-> <<>>, vcounter |-> vcounter, fresh |-> 0, raised |-> FALSE]
      n       == FreshCounter(vcounter)
  IN IF cl = <<>> \/ cl = <<".">> THEN none
     ELSE IF toks0 # <<>> /\ IsBlockKeyword(toks0[1])
          THEN [none EXCEPT !.emit = <<cl>>]
     ELSE IF tokens # <<>> /\ ~looks_like_subject(tokens[1]) THEN none
     ELSE IF IsTwoTokens(tokens)
          THEN IF Len(tokens) # 2 THEN [none EXCEPT !.raised = TRUE]
               ELSE [emit |-> <<Triple(tokens[1], tokens[2], FreshName(n))>>,
                     vcounter |-> n, fresh |-> 1, raised |-> FALSE]
     ELSE IF IsFourTokens(tokens)
          THEN IF Len(tokens) # 4 THEN [none EXCEPT !.raised = TRUE]
               ELSE IF BadStackedPredicate(tokens[2]) THEN none
               ELSE [emit |-> << Triple(tokens[1], tokens[2], FreshName(n)),
                                 Triple(FreshName(n), tokens[3], tokens[4]) >>,
                     vcounter |-> n, fresh |-> 1, raised |-> FALSE]
     ELSE LET rest == IF Len(tokens) >= 3 /\ IsNumeric(tokens[2])
                      THEN <<tokens[1]>> \o SubSeq(tokens, 3, Len(tokens))
                      ELSE tokens
          IN IF Len(rest) >= 3
             THEN [none EXCEPT !.emit = <<Triple(rest[1], rest[2], rest[3])>>]
             ELSE [none EXCEPT !.emit = SkipUnusable(rest)]

\* re.sub(r"\s*\.\s*\.\s*", " . ", out)
RECURSIVE DotSqueezeSub(_, _)
DotSqueezeSub(out, i) ==
  IF i > Len(out) THEN <<>>
  ELSE LET a == SkipSpaces(out, i)          \* the first '.'
           b == SkipSpaces(out, a + 1)      \* the second '.'
           e == SkipSpaces(out, b + 1)
       IN IF /\ a <= Len(out) /\ out[a] = "."
             /\ b <= Len(out) /\ out[b] = "."
          THEN <<" ", ".", " ">> \o DotSqueezeSub(out, e)
          ELSE <<out[i]>> \o DotSqueezeSub(out, i + 1)

\* the tail of smart_repair_where: join the kept entries, squeeze, strip
JoinRepaired(repaired) ==
  LET kept == SelectSeq(repaired, LAMBDA x : x # <<>>)
  IN Strip(DotSqueezeSub(Join(kept, <<" ", ".", " ">>), 1))

\* the whole loop, from clause i on
RECURSIVE RepairFrom(_, _, _, _)
RepairFrom(clauses, i, vcounter, repaired) ==
  IF i > Len(clauses)
  THEN [repaired |-> repaired, vcounter |-> vcounter, raised |-> FALSE]
  ELSE LET r == RepairClause(clauses[i], vcounter)
       IN IF r.raised
          THEN [repaired |-> repaired, vcounter |-> vcounter, raised |-> TRUE]
          ELSE RepairFrom(clauses, i + 1, r.vcounter, repaired \o r.emit)

\* smart_repair_where as a function of the body (no exception assumed)
smart_repair_where(where_body) ==
  JoinRepaired(RepairFrom(split_clauses(where_body), 1, InitialCounter(0), <<>>).repaired)

\* ------------------------------------------------------------------------
\* Pass 7: normalize_query_text
\* ------------------------------------------------------------------------
\* re.sub(r"\s+", " ", q)
RECURSIVE CollapseSpaces(_, _)
CollapseSpaces(q, i) ==
  IF i > Len(q) THEN <<>>
  ELSE IF IsSpace(q[i]) THEN <<" ">> \o CollapseSpaces(q, SkipSpaces(q, i))
  ELSE <<q[i]>> \o CollapseSpaces(q, i + 1)

kwSelect == <<"s","e","l","e","c","t">>
kwAsk    == <<"a","s","k">>
kwOrder  == <<"o","r","d","e","r">>
kwBy     == <<"b","y">>
kwLimit  == <<"l","i","m","i","t">>
txtSELECT  == <<"S","E","L","E","C","T">>
txtASK     == <<"A","S","K">>
txtORDERBY == <<"O","R","D","E","R"," ","B","Y">>
txtLIMIT   == <<"L","I","M","I","T">>
txtDESC    == <<"D","E","S","C">>

\* re.sub(r"(?i)\border\s+by\b", "ORDER BY", q)
RECURSIVE OrderBySub(_, _)
OrderBySub(q, i) ==
  IF i > Len(q) THEN <<>>
  ELSE LET j == SkipSpaces(q, i + 5)
       IN IF /\ Boundary(q, i) /\ MatchAtCI(q, i, kwOrder)
             /\ j > i + 5 /\ MatchAtCI(q, j, kwBy) /\ Boundary(q, j + 2)
          THEN txtORDERBY \o OrderBySub(q, j + 2)
          ELSE <<q[i]>> \o OrderBySub(q, i + 1)

\* re.sub(r"\s*<c>\s*", " <c> ", q) for a brace character c
RECURSIVE BraceSpacingSub(_, _, _)
BraceSpacingSub(q, c, i) ==
  IF i > Len(q) THEN <<>>
  ELSE LET j == SkipSpaces(q, i)
       IN IF j <= Len(q) /\ q[j] = c
          THEN <<" ", c, " ">> \o BraceSpacingSub(q, c, SkipSpaces(q, j + 1))
          ELSE <<q[i]>> \o BraceSpacingSub(q, c, i + 1)

\* re.sub(r"ORDER BY\s*DESC\s*\(", "ORDER BY DESC(", q)
RECURSIVE OrderByDescSub(_, _)
OrderByDescSub(q, i) ==
  IF i > Len(q) THEN <<>>
  ELSE LET j == SkipSpaces(q, i + 8)
           k == SkipSpaces(q, j + 4)
       IN IF /\ MatchAt(q, i, txtORDERBY) /\ MatchAt(q, j, txtDESC)
             /\ k <= Len(q) /\ q[k] = "("
          THEN txtORDERBY \o <<" ">> \o txtDESC \o <<"(">> \o OrderByDescSub(q, k + 1)
          ELSE <<q[i]>> \o OrderByDescSub(q, i + 1)

\* re.sub(r"\)\s*limit", ") LIMIT", q, flags=re.IGNORECASE)
RECURSIVE ParenLimitSub(_, _)
ParenLimitSub(q, i) ==
  IF i > Len(q) THEN <<>>
  ELSE LET j == SkipSpaces(q, i + 1)
       IN IF q[i] = ")" /\ MatchAtCI(q, j, kwLimit)
          THEN <<")", " ">> \o txtLIMIT \o ParenLimitSub(q, j + 5)
          ELSE <<q[i]>> \o ParenLimitSub(q, i + 1)

normalize_query_text(q) ==
  LET q1 == CollapseSpaces(Strip(q), 1)
      q2 == KeywordSub(q1, kwSelect, txtSELECT, 1)
      q3 == KeywordSub(q2, kwAsk, txtASK, 1)
      q4 == OrderBySub(q3, 1)
      q5 == KeywordSub(q4, kwLimit, txtLIMIT, 1)
      q6 == BraceSpacingSub(q5, "{", 1)
      q7 == BraceSpacingSub(q6, "}", 1)
      q8 == OrderByDescSub(q7, 1)
      q9 == ParenLimitSub(q8, 1)
  IN Strip(q9)

\* ------------------------------------------------------------------------
\* Pass 8: rebalance_braces_and_parens
\* ------------------------------------------------------------------------
\* while to_remove and q.endswith(c): q = q[:-1].rstrip(); to_remove -= 1
RECURSIVE DropTrailing(_, _, _)
DropTrailing(q, c, to_remove) ==
  IF to_remove > 0 /\ q # <<>> /\ q[Len(q)] = c
  THEN DropTrailing(RStrip(SubSeq(q, 1, Len(q) - 1)), c, to_remove - 1)
  ELSE q

\* a variant that appends "}" without the space
RebalanceBracesNoSpace(q) ==
  LET opens  == Count(q, "{")
      closes == Count(q, "}")
  IN IF closes > opens THEN DropTrailing(q, "}", closes - opens)
     ELSE IF opens > closes THEN q \o Repeat(<<"}">>, opens - closes)
     ELSE q

\* the "# Braces" half
RebalanceBraces(q) ==
  LET opens  == Count(q, "{")
      closes == Count(q, "}")
  IN IF closes > opens THEN DropTrailing(q, "}", closes - opens)
     ELSE IF opens > closes THEN q \o Repeat(<<" ", "}">>, opens - closes)
     ELSE q

\* a variant that appends ')' when the closers are in excess
RebalanceParensSwapped(q) ==
  LET lpar == Count(q, "(")
      rpar == Count(q, ")")
  IN IF rpar > lpar THEN q \o Repeat(<<")">>, rpar - lpar)
     ELSE IF lpar > rpar THEN DropTrailing(q, "(", lpar - rpar)
     ELSE q

\* the "# Parentheses" half
RebalanceParens(q) ==
  LET lpar == Count(q, "(")
      rpar == Count(q, ")")
  IN IF rpar > lpar THEN DropTrailing(q, ")", rpar - lpar)
     ELSE IF lpar > rpar THEN q \o Repeat(<<")">>, lpar - rpar)
     ELSE q

rebalance_braces_and_parens(q) == RebalanceParens(RebalanceBraces(q))

\* ------------------------------------------------------------------------
\* fix_query as a function of a string (no exception assumed): passes 1 to 8
\* ------------------------------------------------------------------------
AfterCleanup(q) ==
  NormalizeWhereKeyword(clean_bad_chars_and_quotes(sanitize_curie_localparts(
    map_unknown_prefixes(replace_square_brackets_globally(q)))))

\* a variant that leaves the tail out
ReassembleWithoutTail(head, body_fixed, tail) == head \o body_fixed

Reassemble(head, body_fixed, tail) == head \o body_fixed \o tail

AfterRepair(q) ==
  LET x == extract_where_body(AfterCleanup(q))
  IN IF x.found THEN Reassemble(x.head, smart_repair_where(x.body), x.tail)
     ELSE AfterCleanup(q)

fix_query_text(q) == rebalance_braces_and_parens(normalize_query_text(AfterRepair(q)))

\* ------------------------------------------------------------------------
\* Values of a data-frame cell: a string, or a non-string (NaN, None)
\* ------------------------------------------------------------------------
Str(s)  == [kind |-> "str", s |-> s]
NaNCell == [kind |-> "nan", s |-> <<>>]
NoneCell == [kind |-> "none", s |-> <<>>]

\* a variant that takes every cell for a string
IsStrAlways(cell) == TRUE

\* isinstance(q, str)
IsStr(cell) == cell.kind = "str"

\* ------------------------------------------------------------------------
\* db.py: run_sparql and the row outcome of process_file
\* ------------------------------------------------------------------------
\* What the endpoint does with one request: the request raises
\* requests.RequestException ("network"), the status is not 200 ("http"),
\* the body is not JSON ("notjson"), results.bindings is not a list
\* ("notalist"), or it is the list bindings; a binding has ?obj with a value
\* or not.
Response(kind, bindings) == [kind |-> kind, bindings |-> bindings]
Binding(value) == [obj |-> TRUE, value |-> value]
NoObjBinding == [obj |-> FALSE, value |-> <<>>]

\* (obj_values, error): err = "" stands for None, ok = FALSE for obj_values None
Failed(err) == [ok |-> FALSE, vals |-> <<>>, err |-> err]

\* "Deduplicate while preserving order"
RECURSIVE UniqueFrom(_, _, _)
UniqueFrom(obj_vals, i, unique_vals) ==
  IF i > Len(obj_vals) THEN unique_vals
  ELSE IF \E k \in 1..Len(unique_vals) : unique_vals[k] = obj_vals[i]
       THEN UniqueFrom(obj_vals, i + 1, unique_vals)
       ELSE UniqueFrom(obj_vals, i + 1, Append(unique_vals, obj_vals[i]))

run_sparql(query, response) ==
  IF ~IsStr(query) \/ Strip(query.s) = <<>>
  THEN Failed("Empty or invalid query string")
  ELSE IF response.kind = "network" THEN Failed("Network error")
  ELSE IF response.kind = "http" THEN Failed("HTTP")
  ELSE IF response.kind = "notjson" THEN Failed("Invalid JSON")
  ELSE IF response.kind = "notalist" THEN Failed("Unexpected results format")
  ELSE LET with_obj == SelectSeq(response.bindings, LAMBDA b : b.obj)
           obj_vals == [k \in 1..Len(with_obj) |-> with_obj[k].value]
       IN [ok |-> TRUE, vals |-> UniqueFrom(obj_vals, 1, <<>>), err |-> ""]

\* the cell a row gets in the column obj_values: pd.NA, or a text
NA == [na |-> TRUE, text |-> <<>>]
Text(s) == [na |-> FALSE, text |-> s]
txtEmpty == <<"e","m","p","t","y">>

\* a variant that does not count the failed rows
CountersMissingErrors(counters, key) ==
  IF key = "error_nan" THEN counters ELSE [counters EXCEPT ![key] = @ + 1]

\* counters[key] += 1
CountersPlus(counters, key) == [counters EXCEPT ![key] = @ + 1]

\* the body of "for row in iter_rows": what the row appends to the two
\* columns and the counter it increments
RowOutcome(query, response) ==
  LET r == run_sparql(query, response)
  IN IF r.err # "" THEN [obj_values |-> NA, error |-> r.err, key |-> "error_nan"]
     ELSE IF Len(r.vals) = 0
          THEN [obj_values |-> Text(txtEmpty), error |-> "", key |-> "empty"]
          ELSE [obj_values |-> Text(Join(r.vals, <<";">>)), error |-> "",
                key |-> "non_empty"]

\* ------------------------------------------------------------------------
\* slice_large_jsons.py: slice_json_stream_by_size
\* ------------------------------------------------------------------------
\* a variant that does not test whether the batch holds anything
MustFlushAlways(batch, batch_size, obj_size, limit) ==
  batch_size + obj_size > limit

\* if batch_size + obj_size > MAX_BYTES and batch
MustFlush(batch, batch_size, obj_size, limit) ==
  batch_size + obj_size > limit /\ batch # <<>>

\* the file <base_name>_part<part_num>.json as json.dump(batch, ...) writes it
PartFile(part_num, batch, batch_size) ==
  [part_num |-> part_num, batch |-> batch, batch_size |-> batch_size]

\* ------------------------------------------------------------------------
\* Bounds and the inputs drawn within them
\* ------------------------------------------------------------------------
MaxPieces == 4      \* pieces concatenated into one query of Spec
MaxRows   == 3      \* rows of the data frame of SpecBatch
MaxToks   == 5      \* tokens of one WHERE body of SpecWhere
MaxLen    == 4      \* characters of one text of SpecRebalance
MaxFiles  == 2      \* CSV files of one run of the query runner
MaxFileRows == 2    \* rows of one of those files
MaxTriples == 2     \* triples of one WHERE body of SpecTriples
MaxObjects == 4     \* objects of the JSON array given to the slicer
MAX_BYTES == 3      \* the size limit of a slice, scaled down to the sizes below

RECURSIVE Concats(_, _)
Concats(pieces, n) ==
  IF n = 0 THEN {<<>>}
  ELSE LET shorter == Concats(pieces, n - 1)
       IN shorter \cup {s \o p : s \in shorter, p \in pieces}

QueryPieces ==
  { <<"{">>, <<"}">>, <<"[">>, <<"]">>, <<"(">>, <<")">>,
    <<"?","x">>, <<" ","d","b","o",":","p">>, txtWHERE }

Queries == Concats(QueryPieces, MaxPieces)
Cells == {Str(s) : s \in Queries} \cup {NaNCell, NoneCell}

BatchCells ==
  { NaNCell,
    Str(<<"{","?","x"," ","w","d","t",":","p","}">>),
    Str(<<"[","?","x"," ","p",":","a"," ","p",":","b"," ","?","y",".","?","y"," ","p",":","c">>),
    Str(<<"}",")">>) }

RECURSIVE RowsUpTo(_)
RowsUpTo(n) ==
  IF n = 0 THEN {<<>>}
  ELSE LET shorter == RowsUpTo(n - 1)
       IN shorter \cup {Append(r, c) : r \in shorter, c \in BatchCells}

BodyTokens ==
  { <<"?","x">>, <<"d","b","o",":","p">>, <<"a">>, <<":","a">>, <<".">>, <<";">>,
    <<"F","I","L","T","E","R">> }

RECURSIVE TokenLists(_)
TokenLists(n) ==
  IF n = 0 THEN {<<>>}
  ELSE LET shorter == TokenLists(n - 1)
       IN shorter \cup {Append(l, t) : l \in shorter, t \in BodyTokens}

Bodies == {Join(l, <<" ">>) : l \in TokenLists(MaxToks)}

\* queries made of the prefixes step 2 rewrites, letters and blanks
PrefixPieces ==
  { pfxWdt, pfxPs, pfxP, pfxWd, <<"a">>, <<" ">> }

\* queries made of prefixed names with colons, dots and digits in them
CuriePieces ==
  { <<"b", ":">>, <<"a">>, <<"1">>, <<":">>, <<".">>, <<" ">> }

\* queries made of braces, brackets, a variable, a CURIE and the keyword
BracePieces ==
  { <<"{">>, <<"}">>, <<"[">>, <<"]">>,
    <<"?","x">>, <<" ","d","b","o",":","p">>, txtWHERE }

\* queries made of comparison operators and IRI brackets
CleanupPieces ==
  { <<"<">>, <<">">>, <<"=">>, <<"!">>, <<"a">>, <<".">>, <<" ">> }

\* the end-to-end scenario: SELECT ?x WHERE [S wdt:P wd:O], with a variable,
\* a CURIE and two IRIs as subject
ScenarioQuery(s, p, o) ==
  <<"S","E","L","E","C","T"," ","?","x"," ","W","H","E","R","E"," ","[">>
    \o s \o <<" ">> \o pfxWdt \o p \o <<" ">> \o pfxWd \o o \o <<"]">>
ScenarioQueries ==
  {ScenarioQuery(s, p, o) :
     s \in { <<"?","x">>, <<"d","b","r",":","A">>, <<"<","a",">">>, <<"<","a",".","b",">">> },
     p \in { <<"P","1","0","6">>, <<"p">>, <<"P","1">> },
     o \in { <<"Q","5">>, <<"q">> }}

\* WHERE bodies with numbers in predicate position and with block clauses
ClauseTokens ==
  { <<"?","x">>, <<"d","b","o",":","p">>, <<"1">>, <<"a">>, <<".">>,
    <<"F","I","L","T","E","R","(">>, <<")">> }

RECURSIVE TokenListsOf(_, _)
TokenListsOf(tokens, n) ==
  IF n = 0 THEN {<<>>}
  ELSE LET shorter == TokenListsOf(tokens, n - 1)
       IN shorter \cup {Append(l, t) : l \in shorter, t \in tokens}

\* CONTAINS calls: CONTAINS(a1,a2,...), the arguments a variable, a padded word
\* and a nested call
ContainsQuery(args) == txtCONTAINS \o Join(args, <<",">>) \o <<")">>
ContainsQueries ==
  {ContainsQuery(l) :
     l \in TokenListsOf({ <<"?","x">>, <<" ","a">>, <<"s","t","r","(","?","x",")">> },
                        MaxPieces) \ {<<>>}}

\* the query runner: the files of the input folder (unreadable, without the
\* sparql column, or a data frame of so many rows), the cells of the sparql
\* column and the responses of the endpoint
RunnerFile(kind, nrows) == [kind |-> kind, nrows |-> nrows]
RunnerFiles ==
  {RunnerFile("unreadable", 0), RunnerFile("nocolumn", 0)}
    \cup {RunnerFile("csv", n) : n \in 0..MaxFileRows}
RECURSIVE FileListsUpTo(_)
FileListsUpTo(n) ==
  IF n = 1 THEN {<<f>> : f \in RunnerFiles}
  ELSE LET shorter == FileListsUpTo(n - 1)
       IN shorter \cup {Append(l, f) : l \in shorter, f \in RunnerFiles}
RunnerQueries == {Str(<<"q">>), Str(<<" ">>), NaNCell}
Responses ==
  {Response(k, <<>>) : k \in {"network", "http", "notjson", "notalist"}}
    \cup {Response("json", b) :
            b \in { <<>>, <<NoObjBinding>>, <<Binding(<<"a">>)>>,
                    <<Binding(<<"a">>), Binding(<<"a">>)>>,
                    <<Binding(<<"a">>), NoObjBinding, Binding(<<"b">>)>> }}

\* the slicer: the encoded sizes get_json_size returns for the objects of the
\* input array, small ones, one that fills a slice and one above the limit
ObjectSizes == {1, 2, MAX_BYTES, MAX_BYTES + 1}
RECURSIVE SizeListsUpTo(_)
SizeListsUpTo(n) ==
  IF n = 0 THEN {<<>>}
  ELSE LET shorter == SizeListsUpTo(n - 1)
       IN shorter \cup {Append(l, z) : l \in shorter, z \in ObjectSizes}

\* WHERE bodies made of well-formed triples S P O separated by ' . ': a
\* variable or an IRI as subject, a CURIE as predicate, and a variable, a
\* decimal literal or a parenthesised token as object
WellFormedTriples ==
  {Triple(s, <<"d","b","o",":","p">>, o) :
     s \in { <<"?","x">>, <<"<","a",".","b",">">> },
     o \in { <<"?","x">>, <<"1",".","5">>, <<"(","a",".",".","b",")">> }}
RECURSIVE TripleListsUpTo(_)
TripleListsUpTo(n) ==
  IF n = 0 THEN {<<>>}
  ELSE LET shorter == TripleListsUpTo(n - 1)
       IN shorter \cup {Append(l, t) : l \in shorter, t \in WellFormedTriples}
TripleBody(triples) == Join(triples, <<" ", ".", " ">>)

\* WHERE bodies made of openers, closers, dots, a letter and a blank
SplitChars ==
  { <<"{">>, <<"}">>, <<"(">>, <<")">>, <<"[">>, <<"]">>, <<".">>, <<"a">>, <<" ">> }

RebalanceChars == { <<"{">>, <<"}">>, <<"(">>, <<")">>, <<" ">>, <<"a">> }
RebalanceInputs == Concats(RebalanceChars, MaxLen)

\* ------------------------------------------------------------------------
\* State
\* ------------------------------------------------------------------------
VARIABLES
  top,        \* the function under execution: fix_query (driven by main's
              \* df[SPARQL_COL].apply), smart_repair_where or
              \* rebalance_braces_and_parens called on its own
  rows,       \* the cells of the sparql column, in row order
  out,        \* the cells fix_query has returned so far
  pc,         \* position inside the running call
  q,          \* the local q of fix_query (the text being rewritten)
  prev,       \* history: q before the pass applied last
  passes,     \* history: passes applied in the running call
  head, body, tail,   \* the result of extract_where_body
  clauses,    \* smart_repair_where: the list split_clauses returned
  ci,         \* index of the clause the loop handles next
  repaired,   \* smart_repair_where: the list repaired
  vcounter,   \* smart_repair_where: the closure variable of fresh_var
  nfresh,     \* history: fresh_var() calls made in the running call
  lastClause, \* history: the clause the loop handled last
  lastEmit,   \* history: what that round appended to repaired
  applied,    \* rebalance on its own: times it has been applied to q
  scan,       \* split_clauses on its own: its locals out, buf, depth and the
              \* number of characters the for loop has consumed
  slicer,     \* slice_json_stream_by_size: the sizes of the objects of the
              \* input, its locals batch (the objects by their position in
              \* the input), batch_size, part_num, count, and the part files
              \* written so far
  runner      \* db.py: the locals of main (files, the index of the file at
              \* hand, ok_files, total_rows, counters) and of process_file
              \* (the file's rows, obj_values_col, error_col, processed_rows)

vars == <<top, rows, out, pc, q, prev, passes, head, body, tail, clauses, ci,
          repaired, vcounter, nfresh, lastClause, lastEmit, applied, scan,
          slicer, runner>>

\* the state of the functions that fix_query does not run step by step
foreignVars == <<scan, slicer, runner>>

\* out, buf, depth = [], [], 0
NoScan == [n |-> 0, out |-> <<>>, buf |-> <<>>, depth |-> 0]

\* slice_json_stream_by_size before its loop, over objects of the given sizes
SlicerAt(sizes) ==
  [sizes |-> sizes, batch |-> <<>>, batch_size |-> 0, part_num |-> 1,
   count |-> 0, written |-> <<>>]

\* main() of db.py before its loop, over the given files
RunnerAt(files) ==
  [files |-> files, fi |-> 1, ok_files |-> 0, total_rows |-> 0,
   counters |-> [non_empty |-> 0, empty |-> 0, error_nan |-> 0],
   before |-> [non_empty |-> 0, empty |-> 0, error_nan |-> 0],
   obj_values_col |-> <<>>, error_col |-> <<>>, processed_rows |-> 0]

repairVars == <<clauses, ci, repaired, vcounter, nfresh, lastClause, lastEmit>>
extractVars == <<head, body, tail>>

Blank ==
  /\ out = <<>> /\ q = <<>> /\ prev = <<>> /\ passes = 0
  /\ head = <<>> /\ body = <<>> /\ tail = <<>>
  /\ clauses = <<>> /\ ci = 1 /\ repaired = <<>> /\ vcounter = 0 /\ nfresh = 0
  /\ lastClause = <<>> /\ lastEmit = <<>> /\ applied = 0
  /\ scan = NoScan /\ slicer = SlicerAt(<<>>) /\ runner = RunnerAt(<<>>)

\* main() on a one-row data frame
Init ==
  /\ top = "fix_query" /\ pc = "idle"
  /\ \E c \in Cells : rows = <<c>>
  /\ Blank

\* main() on a data frame of several rows
InitBatch ==
  /\ top = "fix_query" /\ pc = "idle"
  /\ rows \in RowsUpTo(MaxRows)
  /\ Blank

\* smart_repair_where(where_body) called on its own
InitWhere ==
  /\ top = "smart_repair_where" /\ pc = "repair_start"
  /\ rows = <<>>
  /\ out = <<>> /\ q = <<>> /\ prev = <<>> /\ passes = 0
  /\ head = <<>> /\ body \in Bodies /\ tail = <<>>
  /\ clauses = <<>> /\ ci = 1 /\ repaired = <<>> /\ vcounter = 0 /\ nfresh = 0
  /\ lastClause = <<>> /\ lastEmit = <<>> /\ applied = 0
  /\ scan = NoScan /\ slicer = SlicerAt(<<>>) /\ runner = RunnerAt(<<>>)

\* main() on a one-row data frame whose cell is one of the given queries
FixQueryOn(queries) ==
  /\ top = "fix_query" /\ pc = "idle"
  /\ \E s \in queries : rows = <<Str(s)>>
  /\ Blank

\* smart_repair_where(where_body) called on one of the given bodies
RepairOn(bodies) ==
  /\ top = "smart_repair_where" /\ pc = "repair_start"
  /\ rows = <<>>
  /\ out = <<>> /\ q = <<>> /\ prev = <<>> /\ passes = 0
  /\ head = <<>> /\ body \in bodies /\ tail = <<>>
  /\ clauses = <<>> /\ ci = 1 /\ repaired = <<>> /\ vcounter = 0 /\ nfresh = 0
  /\ lastClause = <<>> /\ lastEmit = <<>> /\ applied = 0
  /\ scan = NoScan /\ slicer = SlicerAt(<<>>) /\ runner = RunnerAt(<<>>)

\* split_clauses(where_body) called on one of the given bodies
SplitClausesOn(bodies) ==
  /\ top = "split_clauses" /\ pc = "scan"
  /\ rows = <<>>
  /\ out = <<>> /\ q = <<>> /\ prev = <<>> /\ passes = 0
  /\ head = <<>> /\ body \in bodies /\ tail = <<>>
  /\ clauses = <<>> /\ ci = 1 /\ repaired = <<>> /\ vcounter = 0 /\ nfresh = 0
  /\ lastClause = <<>> /\ lastEmit = <<>> /\ applied = 0
  /\ scan = NoScan /\ slicer = SlicerAt(<<>>) /\ runner = RunnerAt(<<>>)

\* main() of db.py over one of the given lists of files
RunnerOn(lists) ==
  /\ top = "db_main" /\ pc = "files"
  /\ rows = <<>>
  /\ out = <<>> /\ q = <<>> /\ prev = <<>> /\ passes = 0
  /\ head = <<>> /\ body = <<>> /\ tail = <<>>
  /\ clauses = <<>> /\ ci = 1 /\ repaired = <<>> /\ vcounter = 0 /\ nfresh = 0
  /\ lastClause = <<>> /\ lastEmit = <<>> /\ applied = 0
  /\ scan = NoScan /\ slicer = SlicerAt(<<>>)
  /\ \E l \in lists : runner = RunnerAt(l)

\* slice_json_stream_by_size(filename) on an array of objects of one of the
\* given lists of sizes
SlicerOn(lists) ==
  /\ top = "slice_json_stream_by_size" /\ pc = "objects"
  /\ rows = <<>>
  /\ out = <<>> /\ q = <<>> /\ prev = <<>> /\ passes = 0
  /\ head = <<>> /\ body = <<>> /\ tail = <<>>
  /\ clauses = <<>> /\ ci = 1 /\ repaired = <<>> /\ vcounter = 0 /\ nfresh = 0
  /\ lastClause = <<>> /\ lastEmit = <<>> /\ applied = 0
  /\ scan = NoScan /\ runner = RunnerAt(<<>>)
  /\ \E l \in lists : slicer = SlicerAt(l)

\* rebalance_braces_and_parens(q) called on its own
InitRebalance ==
  /\ top = "rebalance_braces_and_parens" /\ pc = "rebalance"
  /\ rows = <<>>
  /\ out = <<>> /\ q \in RebalanceInputs /\ prev = <<>> /\ passes = 0
  /\ head = <<>> /\ body = <<>> /\ tail = <<>>
  /\ clauses = <<>> /\ ci = 1 /\ repaired = <<>> /\ vcounter = 0 /\ nfresh = 0
  /\ lastClause = <<>> /\ lastEmit = <<>> /\ applied = 0
  /\ scan = NoScan /\ slicer = SlicerAt(<<>>) /\ runner = RunnerAt(<<>>)

\* ------------------------------------------------------------------------
\* Actions
\* ------------------------------------------------------------------------
\* df[SPARQL_COL].apply(fix_query) reaches the next row; a non-string cell is
\* returned at once
Call ==
  /\ top = "fix_query" /\ pc = "idle" /\ Len(out) < Len(rows)
  /\ LET cell == rows[Len(out) + 1]
     IN IF ~IsStr(cell)
        THEN /\ out' = Append(out, cell)
             /\ UNCHANGED <<pc, q, prev, passes>>
        ELSE /\ q' = cell.s /\ prev' = cell.s /\ passes' = 0
             /\ pc' = "brackets"
             /\ UNCHANGED out
  /\ UNCHANGED <<top, rows, applied>>
  /\ UNCHANGED extractVars
  /\ UNCHANGED repairVars
  /\ UNCHANGED foreignVars

\* one straight-line pass: q = f(q)
Pass(at, result, next) ==
  /\ pc = at
  /\ q' = result /\ prev' = q /\ passes' = passes + 1
  /\ pc' = next
  /\ UNCHANGED <<top, rows, out, applied>>
  /\ UNCHANGED extractVars
  /\ UNCHANGED repairVars
  /\ UNCHANGED foreignVars

PassBrackets == Pass("brackets", replace_square_brackets_globally(q), "prefixes")
PassPrefixes == Pass("prefixes", map_unknown_prefixes(q), "curies")
PassCuries   == Pass("curies", sanitize_curie_localparts(q), "cleanup")
PassCleanup  == Pass("cleanup", clean_bad_chars_and_quotes(q), "where")
PassWhere    == Pass("where", NormalizeWhereKeyword(q), "extract")

\* head, body, tail = extract_where_body(q); without a body pass 6 is skipped
Extract ==
  /\ pc = "extract"
  /\ LET x == extract_where_body(q)
     IN /\ head' = x.head /\ body' = x.body /\ tail' = x.tail
        /\ pc' = IF x.found THEN "repair_start" ELSE "normalize"
  /\ UNCHANGED <<top, rows, out, q, prev, passes, applied>>
  /\ UNCHANGED repairVars
  /\ UNCHANGED foreignVars

\* smart_repair_where, up to the loop
RepairStart ==
  /\ pc = "repair_start"
  /\ clauses' = split_clauses(body)
  /\ vcounter' = InitialCounter(vcounter)
  /\ repaired' = <<>> /\ ci' = 1 /\ nfresh' = 0
  /\ lastClause' = <<>> /\ lastEmit' = <<>>
  /\ pc' = "loop"
  /\ UNCHANGED <<top, rows, out, q, prev, passes, applied>>
  /\ UNCHANGED extractVars
  /\ UNCHANGED foreignVars

\* one round of "for cl in clauses"
RepairRound ==
  /\ pc = "loop" /\ ci <= Len(clauses)
  /\ LET r == RepairClause(clauses[ci], vcounter)
     IN IF r.raised
        THEN /\ pc' = "raised"
             /\ UNCHANGED <<ci, repaired, vcounter, nfresh, lastEmit>>
        ELSE /\ pc' = "loop"
             /\ ci' = ci + 1
             /\ repaired' = repaired \o r.emit
             /\ vcounter' = r.vcounter
             /\ nfresh' = nfresh + r.fresh
             /\ lastEmit' = r.emit
  /\ lastClause' = clauses[ci]
  /\ UNCHANGED <<top, rows, out, q, prev, passes, clauses, applied>>
  /\ UNCHANGED extractVars
  /\ UNCHANGED foreignVars

\* the end of smart_repair_where, and q = f"{head}{body_fixed}{tail}" in fix_query
RepairJoin ==
  /\ pc = "loop" /\ ci > Len(clauses)
  /\ LET body_fixed == JoinRepaired(repaired)
     IN IF top = "fix_query"
        THEN /\ q' = Reassemble(head, body_fixed, tail)
             /\ pc' = "normalize"
        ELSE /\ q' = body_fixed
             /\ pc' = "returned"
  /\ prev' = q /\ passes' = passes + 1
  /\ UNCHANGED <<top, rows, out, applied>>
  /\ UNCHANGED extractVars
  /\ UNCHANGED repairVars
  /\ UNCHANGED foreignVars

PassNormalize == Pass("normalize", normalize_query_text(q), "rebalance")

\* q = rebalance_braces_and_parens(q): the last pass of fix_query, or the
\* function applied on its own, then once more to its own result
PassRebalance ==
  /\ pc = "rebalance" /\ applied < 2
  /\ q' = rebalance_braces_and_parens(q) /\ prev' = q /\ passes' = passes + 1
  /\ applied' = applied + 1
  /\ pc' = IF top = "fix_query" THEN "return" ELSE "rebalance"
  /\ UNCHANGED <<top, rows, out>>
  /\ UNCHANGED extractVars
  /\ UNCHANGED repairVars
  /\ UNCHANGED foreignVars

\* return q
Return ==
  /\ pc = "return"
  /\ out' = Append(out, Str(q))
  /\ pc' = "idle"
  /\ applied' = 0
  /\ UNCHANGED <<top, rows, q, prev, passes>>
  /\ UNCHANGED extractVars
  /\ UNCHANGED repairVars
  /\ UNCHANGED foreignVars

\* split_clauses: one round of "for ch in where_body"
ScanChar ==
  /\ top = "split_clauses" /\ pc = "scan" /\ scan.n < Len(body)
  /\ LET ch     == body[scan.n + 1]
         d      == DepthStep(scan.depth, ch)
         clause == Strip(scan.buf)
     IN scan' = IF ch = "." /\ d = 0
                THEN [n |-> scan.n + 1,
                      out |-> IF clause # <<>> THEN Append(scan.out, clause)
                              ELSE scan.out,
                      buf |-> <<>>, depth |-> d]
                ELSE [n |-> scan.n + 1, out |-> scan.out,
                      buf |-> Append(scan.buf, ch), depth |-> d]
  /\ UNCHANGED <<top, rows, out, pc, q, prev, passes, applied, slicer, runner>>
  /\ UNCHANGED extractVars
  /\ UNCHANGED repairVars

\* split_clauses: the tail after the loop, and the return
ScanEnd ==
  /\ top = "split_clauses" /\ pc = "scan" /\ scan.n = Len(body)
  /\ LET rest == Strip(scan.buf)
     IN scan' = [scan EXCEPT !.out = IF rest # <<>> THEN Append(scan.out, rest)
                                    ELSE scan.out]
  /\ pc' = "returned"
  /\ UNCHANGED <<top, rows, out, q, prev, passes, applied, slicer, runner>>
  /\ UNCHANGED extractVars
  /\ UNCHANGED repairVars

\* slice_json_stream_by_size: one round of "for obj in objects"
SliceObject ==
  /\ top = "slice_json_stream_by_size" /\ pc = "objects"
  /\ slicer.count < Len(slicer.sizes)
  /\ LET obj      == slicer.count + 1
         obj_size == slicer.sizes[obj]
     IN IF MustFlush(slicer.batch, slicer.batch_size, obj_size, MAX_BYTES)
        THEN slicer' = [slicer EXCEPT
                          !.written = Append(@, PartFile(slicer.part_num,
                                                         slicer.batch,
                                                         slicer.batch_size)),
                          !.batch = <<obj>>,
                          !.batch_size = obj_size,
                          !.part_num = @ + 1,
                          !.count = @ + 1]
        ELSE slicer' = [slicer EXCEPT
                          !.batch = Append(@, obj),
                          !.batch_size = @ + obj_size,
                          !.count = @ + 1]
  /\ UNCHANGED <<top, rows, out, pc, q, prev, passes, applied, scan, runner>>
  /\ UNCHANGED extractVars
  /\ UNCHANGED repairVars

\* slice_json_stream_by_size after its loop: "Save any remaining entries"
SliceEnd ==
  /\ top = "slice_json_stream_by_size" /\ pc = "objects"
  /\ slicer.count = Len(slicer.sizes)
  /\ slicer' = IF slicer.batch # <<>>
               THEN [slicer EXCEPT
                       !.written = Append(@, PartFile(slicer.part_num,
                                                      slicer.batch,
                                                      slicer.batch_size))]
               ELSE slicer
  /\ pc' = "done"
  /\ UNCHANGED <<top, rows, out, q, prev, passes, applied, scan, runner>>
  /\ UNCHANGED extractVars
  /\ UNCHANGED repairVars

\* everything but pc and runner
notRunner ==
  <<top, rows, out, q, prev, passes, applied, scan, slicer, extractVars,
    repairVars>>

\* main: the next file of "for csv_path in csv_files"; process_file up to its
\* loop. A file that cannot be read or has no sparql column returns
\* (False, 0) and main goes on with the next file.
OpenFile ==
  /\ top = "db_main" /\ pc = "files" /\ runner.fi <= Len(runner.files)
  /\ IF runner.files[runner.fi].kind # "csv"
     THEN /\ runner' = [runner EXCEPT !.fi = @ + 1]
          /\ pc' = "files"
     ELSE /\ runner' = [runner EXCEPT !.obj_values_col = <<>>, !.error_col = <<>>,
                                      !.processed_rows = 0,
                                      !.before = runner.counters]
          /\ pc' = "rows"
  /\ UNCHANGED notRunner

\* process_file: one round of "for row in iter_rows"
ProcessRow ==
  /\ top = "db_main" /\ pc = "rows"
  /\ runner.processed_rows < runner.files[runner.fi].nrows
  /\ \E query \in RunnerQueries, response \in Responses :
       LET o == RowOutcome(query, response)
       IN runner' = [runner EXCEPT
                       !.obj_values_col = Append(@, o.obj_values),
                       !.error_col = Append(@, o.error),
                       !.counters = CountersPlus(@, o.key),
                       !.processed_rows = @ + 1]
  /\ UNCHANGED pc
  /\ UNCHANGED notRunner

\* process_file after its loop: the columns are written and
\* (True, processed_rows) is returned; main adds the rows to total_rows
WriteFile ==
  /\ top = "db_main" /\ pc = "rows"
  /\ runner.processed_rows = runner.files[runner.fi].nrows
  /\ runner' = [runner EXCEPT !.ok_files = @ + 1,
                              !.total_rows = @ + runner.processed_rows,
                              !.fi = @ + 1]
  /\ pc' = "files"
  /\ UNCHANGED notRunner

\* main after its loop: the summary is generated and written
WriteSummary ==
  /\ top = "db_main" /\ pc = "files" /\ runner.fi > Len(runner.files)
  /\ pc' = "done"
  /\ UNCHANGED runner
  /\ UNCHANGED notRunner

Next ==
  \/ Call
  \/ PassBrackets \/ PassPrefixes \/ PassCuries \/ PassCleanup \/ PassWhere
  \/ Extract
  \/ RepairStart \/ RepairRound \/ RepairJoin
  \/ PassNormalize \/ PassRebalance
  \/ Return

NextWhere == RepairStart \/ RepairRound \/ RepairJoin

NextRebalance == PassRebalance

NextSplit == ScanChar \/ ScanEnd

NextSlicer == SliceObject \/ SliceEnd

NextRunner == OpenFile \/ ProcessRow \/ WriteFile \/ WriteSummary

\* fix_query from its entry to the end of step 5
NextCleanup ==
  \/ Call
  \/ PassBrackets \/ PassPrefixes \/ PassCuries \/ PassCleanup \/ PassWhere

Spec == Init /\ [][Next]_vars
SpecPrefixes == FixQueryOn(Concats(PrefixPieces, MaxPieces)) /\ [][NextCleanup]_vars
SpecCuries == FixQueryOn(Concats(CuriePieces, MaxPieces)) /\ [][NextCleanup]_vars
SpecCleanup == FixQueryOn(Concats(CleanupPieces, MaxPieces)) /\ [][NextCleanup]_vars
SpecContains == FixQueryOn(ContainsQueries) /\ [][NextCleanup]_vars
SpecBraces == FixQueryOn(Concats(BracePieces, MaxPieces)) /\ [][Next]_vars
SpecScenario == FixQueryOn(ScenarioQueries) /\ [][Next]_vars
SpecClauses ==
  RepairOn({Join(l, <<" ">>) : l \in TokenListsOf(ClauseTokens, MaxToks)})
    /\ [][NextWhere]_vars
SpecSplit == SplitClausesOn(Concats(SplitChars, MaxLen)) /\ [][NextSplit]_vars
\* WHERE bodies that already use a variable named like a fresh one
SpecFresh ==
  RepairOn({Join(l, <<" ">>) :
              l \in TokenListsOf({ <<"?","x">>, <<"?","v","1">>, <<"d","b","o",":","p">>,
                                   <<"1">>, <<".">> }, MaxToks)})
    /\ [][NextWhere]_vars
SpecRunner == RunnerOn(FileListsUpTo(MaxFiles)) /\ [][NextRunner]_vars
SpecSlicer == SlicerOn(SizeListsUpTo(MaxObjects)) /\ [][NextSlicer]_vars
SpecTriples ==
  RepairOn({TripleBody(l) : l \in TripleListsUpTo(MaxTriples)}) /\ [][NextWhere]_vars
SpecBatch == InitBatch /\ [][Next]_vars
SpecWhere == InitWhere /\ [][NextWhere]_vars
SpecRebalance == InitRebalance /\ [][NextRebalance]_vars

\* ------------------------------------------------------------------------
\* Properties
\* ------------------------------------------------------------------------
\* the row the running call was given, and whether every row has been served
CurrentInput == rows[Len(out) + 1].s
Done == pc = "idle" /\ Len(out) = Len(rows)

\* how far the running call is from its return: the passes still to run
StageRank ==
  CASE pc = "idle"         -> 12
    [] pc = "brackets"     -> 11
    [] pc = "prefixes"     -> 10
    [] pc = "curies"       -> 9
    [] pc = "cleanup"      -> 8
    [] pc = "where"        -> 7
    [] pc = "extract"      -> 6
    [] pc = "repair_start" -> 5
    [] pc = "loop"         -> 4
    [] pc = "normalize"    -> 3
    [] pc = "rebalance"    -> 2
    [] pc = "return"       -> 1
    [] OTHER               -> 0

\* rows left, passes left, clauses left: compared lexicographically
Measure ==
  << Len(rows) - Len(out), StageRank,
     IF pc = "loop" THEN Len(clauses) + 1 - ci ELSE 0 >>

LexLess(a, b) ==
  \/ a[1] < b[1]
  \/ (a[1] = b[1] /\ a[2] < b[2])
  \/ (a[1] = b[1] /\ a[2] = b[2] /\ a[3] < b[3])

IsText(s) == \A k \in 1..Len(s) : Len(s[k]) >= 0 /\ s[k] \in STRING

\* C1: for every string input fix_query terminates, raises no exception and
\* returns a string: no step raises (a tuple unpacking is the one place that
\* could), every step lowers a well-founded measure (rows left, passes left,
\* clauses left), so no run goes on for ever, and what a call on a string
\* returns is a string.
C1_TerminatesWithString ==
  [][/\ pc' # "raised"
     /\ LexLess(Measure', Measure) /\ Measure'[1] >= 0 /\ Measure'[3] >= 0
     /\ Len(out') > Len(out) =>
          (rows[Len(out')].kind = "str" =>
             (out'[Len(out')].kind = "str" /\ IsText(out'[Len(out')].s)))]_vars

\* a malformed query went through the unpacking branch and came back a string
C1_Witness ==
  /\ Done /\ Len(out) = 1 /\ out[1].kind = "str"
  /\ nfresh = 1
  /\ Count(rows[1].s, "[") = 1

Balanced(s) == Count(s, "{") = Count(s, "}") /\ Count(s, "(") = Count(s, ")")

\* C2: after fix_query the output holds as many '{' as '}' and as many '('
\* as ')', whatever the string input.
C2_OutputBalanced ==
  \A i \in 1..Len(out) : out[i].kind = "str" => Balanced(out[i].s)

\* C3: rebalancing is idempotent: after one application the brace counts are
\* equal, and a second application returns the same string.
C3_RebalanceIdempotent ==
  top = "rebalance_braces_and_parens" =>
    /\ (applied >= 1 => Count(q, "{") = Count(q, "}"))
    /\ (applied = 2 => q = prev)

Excess(s, open, close) == Count(s, open) - Count(s, close)

\* C4 as stated: a query with N more '{' than '}' gets exactly N ' }' appended
\* at the end of the output.
C4_AppendsInputExcess ==
  (pc = "return" /\ Excess(CurrentInput, "{", "}") >= 1) =>
    q = prev \o Repeat(<<" ", "}">>, Excess(CurrentInput, "{", "}"))

\* C4 amended: when the text that reaches the rebalancing pass (the query
\* after passes 1 to 7) holds N >= 1 more '{' than '}', the output of
\* fix_query is that text followed by exactly N ' }' and then by one ')' for
\* every unclosed '('.
C4_AppendsNormalizedExcess ==
  (pc = "return" /\ Excess(prev, "{", "}") >= 1) =>
    q = prev \o Repeat(<<" ", "}">>, Excess(prev, "{", "}"))
             \o Repeat(<<")">>, Excess(prev, "(", ")"))

\* two ' }' were appended, then a ')'
C4_Witness ==
  /\ pc = "return"
  /\ Excess(prev, "{", "}") = 2 /\ Excess(prev, "(", ")") = 1
  /\ Len(q) = Len(prev) + 5

\* C5 as stated: a query with N more ')' than '(' gets exactly N ')' appended.
C5_AppendsForExcessClosers ==
  (pc = "return" /\ Excess(CurrentInput, ")", "(") >= 1) =>
    Count(q, ")") = Count(prev, ")") + Excess(CurrentInput, ")", "(")

\* C5 amended: when the text that reaches the rebalancing pass holds N >= 1
\* more '(' than ')', the output is that text, its braces rebalanced, followed
\* by exactly N ')'; when it holds more ')' than '(' no ')' is appended: up to
\* that many trailing ')' are removed instead.
C5_AppendsForExcessOpeners ==
  pc = "return" =>
    /\ Excess(prev, "(", ")") >= 1 =>
         q = RebalanceBraces(prev) \o Repeat(<<")">>, Excess(prev, "(", ")"))
    /\ Excess(prev, ")", "(") >= 1 =>
         /\ Count(q, ")") <= Count(prev, ")")
         /\ Count(q, ")") >= Count(prev, "(")
         /\ Len(q) <= Len(RebalanceBraces(prev))

\* two ')' were appended
C5_Witness ==
  /\ pc = "return"
  /\ Excess(prev, "(", ")") = 2
  /\ Count(q, ")") = Count(prev, ")") + 2

\* C6: a non-string cell (NaN, None) is returned as the very same value and
\* no pass is applied to it.
C6_NonStringPassedThrough ==
  \A i \in 1..Len(out) :
    rows[i].kind # "str" => (out[i] = rows[i] /\ passes = 0 /\ q = <<>>)

\* a NaN cell has been returned
C6_Witness == Done /\ rows = <<NaNCell>> /\ out = <<NaNCell>>

\* C7: the result of a call does not depend on earlier calls: the counter
\* starts at zero in every call (inside the loop it equals the number of fresh
\* variables the running call has made, so the first is ?v1), and equal rows
\* get equal results.
C7_CallsIndependent ==
  /\ pc = "loop" => vcounter = nfresh
  /\ \A i, j \in 1..Len(out) : rows[i] = rows[j] => out[i] = out[j]

\* the same query, which needs a fresh variable, was repaired twice
C7_Witness ==
  /\ Len(out) >= 2 /\ rows[1] = rows[2] /\ rows[1].kind = "str"
  /\ out[1] = out[2]
  /\ vcounter >= 1

\* the tokens of the clause the loop handled last, as written and as they
\* remain after duplicate collapse and the stripping of trailing ';' and ','
WrittenTokens == Tokenize(lastClause)
RemainingTokens ==
  StripTrailingPunct(collapse_adjacent_duplicate_vars(Tokenize(lastClause)))

\* a variable, an IRI or a CURIE, in the words of the claims
ValidSubject(tok) ==
  \/ tok[1] = "?"
  \/ (tok[1] = "<" /\ tok[Len(tok)] = ">")
  \/ (tok[1] # ":" /\ \E k \in 1..Len(tok) : tok[k] = ":")

RoundDone == top = "smart_repair_where" /\ pc = "loop" /\ lastClause # <<>>

FreshVar(n) == <<"?", "v">> \o Decimal(n)

\* C8 as stated: every clause of exactly two tokens S P with a valid subject
\* becomes 'S P ?vN'.
C8_TwoTokensAsWritten ==
  (RoundDone /\ Len(WrittenTokens) = 2 /\ ValidSubject(WrittenTokens[1])) =>
    lastEmit = << WrittenTokens[1] \o <<" ">> \o WrittenTokens[2] \o <<" ">>
                  \o FreshVar(nfresh) >>

\* C8 amended: a clause that does not start with a block keyword and of which,
\* after adjacent duplicate variables are collapsed and trailing ';' and ','
\* tokens are stripped, exactly two tokens S P remain, S a valid subject,
\* makes clause repair append exactly 'S P ?vN' to its list of repaired
\* clauses, N being one more than the number of fresh variables made before
\* in the same call.
C8_TwoTokensRemaining ==
  (/\ RoundDone
   /\ ~IsBlockKeyword(WrittenTokens[1])
   /\ Len(RemainingTokens) = 2 /\ ValidSubject(RemainingTokens[1])) =>
    /\ nfresh >= 1
    /\ lastEmit = << RemainingTokens[1] \o <<" ">> \o RemainingTokens[2]
                     \o <<" ">> \o FreshVar(nfresh) >>

\* the second two-token clause of a body got ?v2
C8_Witness ==
  /\ RoundDone /\ nfresh = 2
  /\ Len(RemainingTokens) = 2
  /\ lastEmit = << <<"?","x"," ","d","b","o",":","p"," ","?","v","2">> >>

\* C9 as stated: every clause of exactly four tokens S P1 P2 O with a valid
\* subject is replaced by 'S P1 ?vN' and '?vN P2 O'.
C9_FourTokensAsWritten ==
  (RoundDone /\ Len(WrittenTokens) = 4 /\ ValidSubject(WrittenTokens[1])) =>
    lastEmit = << WrittenTokens[1] \o <<" ">> \o WrittenTokens[2] \o <<" ">>
                    \o FreshVar(nfresh),
                  FreshVar(nfresh) \o <<" ">> \o WrittenTokens[3] \o <<" ">>
                    \o WrittenTokens[4] >>

\* C9 amended: a clause that does not start with a block keyword and of which,
\* after duplicate collapse and the stripping of trailing ';' and ',', exactly
\* four tokens S P1 P2 O remain, S a valid subject and P1 holding a ':' or
\* starting with '?', is replaced by the two triples 'S P1 ?vN' and
\* '?vN P2 O', in that order, sharing one fresh variable; with any other P1
\* (a plain word, a number) the clause is dropped.
C9_FourTokensRemaining ==
  (/\ RoundDone
   /\ ~IsBlockKeyword(WrittenTokens[1])
   /\ Len(RemainingTokens) = 4 /\ ValidSubject(RemainingTokens[1])) =>
    LET p1 == RemainingTokens[2]
    IN IF p1[1] = "?" \/ \E k \in 1..Len(p1) : p1[k] = ":"
       THEN /\ nfresh >= 1
            /\ lastEmit =
                 << RemainingTokens[1] \o <<" ">> \o p1 \o <<" ">> \o FreshVar(nfresh),
                    FreshVar(nfresh) \o <<" ">> \o RemainingTokens[3] \o <<" ">>
                      \o RemainingTokens[4] >>
       ELSE lastEmit = <<>>

\* a stacked predicate was split through ?v1
C9_Witness ==
  /\ RoundDone /\ nfresh = 1
  /\ lastEmit = << <<"?","x"," ","d","b","o",":","p"," ","?","v","1">>,
                   <<"?","v","1"," ","d","b","o",":","p"," ","?","x">> >>

\* C10: a clause that does not start with a block keyword and whose first
\* token is no variable, no IRI and no CURIE is dropped: the round appends
\* nothing to the repaired clauses, and a body made of that clause alone is
\* repaired to the empty string.
C10_InvalidSubjectDropped ==
  /\ (/\ RoundDone
      /\ ~IsBlockKeyword(WrittenTokens[1])
      /\ ~ValidSubject(WrittenTokens[1])) => lastEmit = <<>>
  /\ (/\ top = "smart_repair_where" /\ pc = "returned"
      /\ Len(clauses) = 1
      /\ ~IsBlockKeyword(Tokenize(clauses[1])[1])
      /\ ~ValidSubject(Tokenize(clauses[1])[1])) => q = <<>>

\* a clause starting with a plain word was dropped after a kept clause
C10_Witness ==
  /\ RoundDone /\ ci = 3
  /\ WrittenTokens[1] = <<"a">> /\ Len(WrittenTokens) = 3
  /\ lastEmit = <<>> /\ Len(repaired) = 1

\* the four rewrites of prefix remapping: what is looked for, what replaces it
PrefixRules ==
  << <<pfxWdt, pfxDbo>>, <<pfxPs, pfxDbo>>, <<pfxP, pfxDbo>>, <<pfxWd, pfxDbr>> >>

\* one of the four prefixes stands at position i, at the start of a name
HasPrefixAt(s, i) ==
  Boundary(s, i) /\ \E r \in 1..4 : MatchAt(s, i, PrefixRules[r][1])

\* every prefix rewritten in a single sweep from left to right
RECURSIVE RemapAll(_, _)
RemapAll(text, i) ==
  IF i > Len(text) THEN <<>>
  ELSE IF HasPrefixAt(text, i)
       THEN LET r == CHOOSE r \in 1..4 : MatchAt(text, i, PrefixRules[r][1])
            IN PrefixRules[r][2] \o RemapAll(text, i + Len(PrefixRules[r][1]))
       ELSE <<text[i]>> \o RemapAll(text, i + 1)

\* applying the rewrites named in todo to text, one after the other, gives
\* target in whichever order they are taken
RECURSIVE AnyOrderGives(_, _, _)
AnyOrderGives(text, todo, target) ==
  IF todo = {} THEN text = target
  ELSE \A r \in todo :
         AnyOrderGives(PrefixSub(text, PrefixRules[r][1], PrefixRules[r][2], 1),
                       todo \ {r}, target)

\* C11: prefix remapping is total and order-independent: step 2 rewrites
\* every wdt:, p: and ps: that starts a name to dbo: and every wd: to dbr:, no
\* token of the result starts with one of the four prefixes, and applying the
\* four rewrites in any of the 24 orders gives the same result.
C11_PrefixesRemapped ==
  pc = "curies" =>
    /\ q = RemapAll(prev, 1)
    /\ \A i \in 1..Len(q) : ~HasPrefixAt(q, i)
    /\ LET tokens == Tokenize(q)
       IN \A k \in 1..Len(tokens) : \A r \in 1..4 :
            ~MatchAt(tokens[k], 1, PrefixRules[r][1])
    /\ AnyOrderGives(prev, 1..4, q)

\* 'wdt:a wd:' was remapped to 'dbo:a dbr:'
C11_Witness ==
  /\ pc = "curies"
  /\ prev = pfxWdt \o <<"a", " ">> \o pfxWd
  /\ q = pfxDbo \o <<"a", " ">> \o pfxDbr

\* CURIE_RX matches at position i, and the local part of that match
CurieAt(s, i) ==
  /\ Boundary(s, i)
  /\ (IsAlpha(s[i]) \/ s[i] = "_")
  /\ LET c == SkipCuriePrefix(s, i + 1)
     IN c <= Len(s) /\ s[c] = ":" /\ SkipCurieLocal(s, c + 1) > c + 1
LocalPart(s, i) ==
  LET c == SkipCuriePrefix(s, i + 1)
  IN SubSeq(s, c + 1, SkipCurieLocal(s, c + 1) - 1)

NoSquareBrackets(s) == Count(s, "[") = 0 /\ Count(s, "]") = 0

\* WHERE[ ... ] with no bracket, brace or parenthesis inside
IsBracketedWhere(s) ==
  /\ Len(s) >= 7
  /\ MatchAt(s, 1, txtWHERE) /\ s[6] = "[" /\ s[Len(s)] = "]"
  /\ \A k \in 7..(Len(s) - 1) : s[k] \notin {"[", "]", "{", "}", "(", ")"}

\* C13: no output of fix_query holds a '[' or a ']': step 1 turns every '['
\* into '{' and every ']' into '}' and no later step brings one back, and a
\* query of the shape WHERE[...] comes out as WHERE { ... }.
C13_NoSquareBrackets ==
  /\ \A i \in 1..Len(out) : out[i].kind = "str" => NoSquareBrackets(out[i].s)
  /\ pc = "prefixes" =>
       /\ NoSquareBrackets(q)
       /\ Count(q, "{") = Count(prev, "{") + Count(prev, "[")
       /\ Count(q, "}") = Count(prev, "}") + Count(prev, "]")
  /\ \A i \in 1..Len(out) :
       (rows[i].kind = "str" /\ IsBracketedWhere(rows[i].s)) =>
         LET o == out[i].s
         IN /\ MatchAt(o, 1, txtWHERE \o <<" ", "{">>)
            /\ o[Len(o)] = "}"
            /\ Count(o, "{") = 1 /\ Count(o, "}") = 1

\* 'WHERE[?x]' came out as 'WHERE { }'
C13_Witness ==
  /\ Done
  /\ rows[1].s = txtWHERE \o <<"[", "?", "x", "]">>
  /\ out[1].s = txtWHERE \o <<" ", "{", " ", "}">>

txtSelectWhere == <<"S","E","L","E","C","T"," ","?","x"," ","W","H","E","R","E"," ">>

\* the tokens S, wdt:P, wd:O between the brackets of SELECT ?x WHERE [S P O]
ScenarioTokens(query) == Tokenize(SubSeq(query, Len(txtSelectWhere) + 2, Len(query) - 1))

IsScenario(query) ==
  /\ MatchAt(query, 1, txtSelectWhere \o <<"[">>) /\ query[Len(query)] = "]"
  /\ Len(ScenarioTokens(query)) = 3
  /\ ValidSubject(ScenarioTokens(query)[1])
  /\ MatchAt(ScenarioTokens(query)[2], 1, pfxWdt)
  /\ MatchAt(ScenarioTokens(query)[3], 1, pfxWd)

\* SELECT ?x WHERE { S dbo:P dbr:O }
ScenarioResult(query) ==
  LET t == ScenarioTokens(query)
  IN txtSelectWhere \o <<"{", " ">> \o t[1]
       \o <<" ">> \o pfxDbo \o From(t[2], Len(pfxWdt) + 1)
       \o <<" ">> \o pfxDbr \o From(t[3], Len(pfxWd) + 1) \o <<" ", "}">>

\* C14: a query SELECT ?x WHERE [S P O] whose one triple has a valid subject
\* S, a wdt: predicate and a wd: object is repaired to exactly
\* SELECT ?x WHERE { S dbo:... dbr:... }.
C14_ScenarioRepaired ==
  \A i \in 1..Len(out) :
    (rows[i].kind = "str" /\ IsScenario(rows[i].s)) =>
      out[i].s = ScenarioResult(rows[i].s)

\* the '>' at position k closes an IRI <...>
ClosesIri(s, k) ==
  /\ s[k] = ">"
  /\ \E j \in 1..(k - 1) :
       /\ s[j] = "<"
       /\ \A x \in (j + 1)..(k - 1) : ~IsSpace(s[x]) /\ s[x] \notin {"<", ">"}

\* C15: bad-token cleanup removes a '>' exactly when it is not preceded by
\* '<', '=', '!' or '>', and never removes the '>' that closes an IRI <...>,
\* wherever it stands (the cleanup of a text without quotes, clock times,
\* CONTAINS and AS keeps every other character in place).
C15_LoneGtRemoved ==
  (pc = "where" /\ Len(q) = Len(prev)) =>
    \A k \in 1..Len(prev) :
      prev[k] = ">" =>
        /\ (q[k] # ">") <=> (k = 1 \/ prev[k - 1] \notin {"<", "=", "!", ">"})
        /\ ClosesIri(prev, k) => q[k] = ">"

\* C16 as stated: a clause that matches none of the dispatch rules (no block
\* keyword, a valid subject, fewer than three tokens after cleanup and not
\* two: a single valid-subject token) is kept with its tokens joined as-is.
C16_LeftoverKept ==
  (/\ RoundDone
   /\ ~IsBlockKeyword(WrittenTokens[1])
   /\ Len(RemainingTokens) = 1 /\ ValidSubject(RemainingTokens[1])) =>
    lastEmit = <<Join(RemainingTokens, <<" ">>)>>

\* C16 amended: a clause that matches none of the dispatch rules (no block
\* keyword, and after cleanup a single token that is a valid subject, or no
\* token at all) is dropped: the round appends nothing to the repaired
\* clauses, and a body made of that clause alone is repaired to the empty
\* string.
C16_LeftoverDropped ==
  /\ (/\ RoundDone
      /\ ~IsBlockKeyword(WrittenTokens[1])
      /\ Len(RemainingTokens) <= 1
      /\ Len(RemainingTokens) = 1 => ValidSubject(RemainingTokens[1])) =>
       lastEmit = <<>>
  /\ (/\ top = "smart_repair_where" /\ pc = "returned"
      /\ Len(clauses) = 1
      /\ ~IsBlockKeyword(Tokenize(clauses[1])[1])
      /\ LET t == StripTrailingPunct(
                    collapse_adjacent_duplicate_vars(Tokenize(clauses[1])))
         IN Len(t) = 1 /\ ValidSubject(t[1])) => q = <<>>

\* a lone '?x' was dropped after a clause that was kept
C16_Witness ==
  /\ RoundDone /\ ci = 3
  /\ RemainingTokens = << <<"?", "x">> >>
  /\ lastEmit = <<>> /\ Len(repaired) = 1

\* digits, with or without a decimal part
PurelyNumeric(tok) ==
  /\ Len(tok) >= 1
  /\ \E d \in 0..Len(tok) :
       /\ d # 1 /\ d # Len(tok)
       /\ \A k \in 1..Len(tok) : IF k = d THEN tok[k] = "." ELSE IsDigit(tok[k])

\* the tokens without the second one
WithoutSecond(tokens) == <<tokens[1]>> \o SubSeq(tokens, 3, Len(tokens))

\* a clause of three or more tokens, a valid subject first and a number second
NumericSecond ==
  /\ RoundDone
  /\ ~IsBlockKeyword(WrittenTokens[1])
  /\ Len(RemainingTokens) >= 3
  /\ ValidSubject(RemainingTokens[1])
  /\ PurelyNumeric(RemainingTokens[2])

FirstThree(tokens) ==
  << tokens[1] \o <<" ">> \o tokens[2] \o <<" ">> \o tokens[3] >>

\* C17 as stated: for every clause with a valid subject and three or more
\* tokens whose second token is purely numeric, that token is dropped and,
\* when three or more tokens remain, the first three are kept as the triple;
\* this also applies to a clause of exactly four tokens.
C17_NumericDroppedAlways ==
  (NumericSecond /\ Len(WithoutSecond(RemainingTokens)) >= 3) =>
    lastEmit = FirstThree(WithoutSecond(RemainingTokens))

\* C17 amended: for a clause that does not start with a block keyword and of
\* which, after cleanup, N >= 3 tokens remain, the first a valid subject and
\* the second purely numeric: with N = 4 the whole clause is dropped; with any
\* other N the numeric token is dropped once and, when three or more tokens
\* are left (N >= 5), the first three of them are kept as the one triple and
\* the rest is discarded; when two are left (N = 3) the clause is dropped.
C17_NumericDropped ==
  NumericSecond =>
    LET rest == WithoutSecond(RemainingTokens)
    IN IF Len(RemainingTokens) # 4 /\ Len(rest) >= 3
       THEN lastEmit = FirstThree(rest)
       ELSE lastEmit = <<>>

\* '?x 1 dbo:p ?x a' was repaired to '?x dbo:p ?x'
C17_Witness ==
  /\ RoundDone
  /\ Len(RemainingTokens) = 5 /\ RemainingTokens[2] = <<"1">>
  /\ lastEmit = << <<"?","x"," ","d","b","o",":","p"," ","?","x">> >>

\* C18: a clause whose first token begins with a block keyword comes out of
\* clause repair with exactly its original text: the round appends the clause
\* as it is, and the repaired body of such a clause alone is that clause,
\* the final squeeze of duplicate dots included.
C18_BlockClauseVerbatim ==
  /\ (RoundDone /\ IsBlockKeyword(WrittenTokens[1])) => lastEmit = <<lastClause>>
  /\ (/\ top = "smart_repair_where" /\ pc = "returned"
      /\ Len(clauses) = 1
      /\ IsBlockKeyword(Tokenize(clauses[1])[1])) => q = clauses[1]

\* the '}' that closes the '{' at position j, 0 when nothing closes it
RECURSIVE CloseFrom(_, _, _)
CloseFrom(s, k, depth) ==
  IF k > Len(s) THEN 0
  ELSE IF s[k] = "{" THEN CloseFrom(s, k + 1, depth + 1)
  ELSE IF s[k] = "}"
       THEN (IF depth = 1 THEN k ELSE CloseFrom(s, k + 1, depth - 1))
  ELSE CloseFrom(s, k + 1, depth)
MatchingClose(s, j) == CloseFrom(s, j + 1, 1)

\* the '{' of the first {...} block that follows a WHERE keyword, from i on
RECURSIVE WhereBlockFrom(_, _)
WhereBlockFrom(s, i) ==
  IF i > Len(s) THEN 0
  ELSE LET j == SkipSpaces(s, i + 5)
       IN IF /\ Boundary(s, i) /\ MatchAtCI(s, i, kwWhere)
             /\ j <= Len(s) /\ s[j] = "{" /\ MatchingClose(s, j) # 0
          THEN j
          ELSE WhereBlockFrom(s, i + 1)

\* the '{' of the first {...} block anywhere, from j on
RECURSIVE AnyBlockFrom(_, _)
AnyBlockFrom(s, j) ==
  IF j > Len(s) THEN 0
  ELSE IF s[j] = "{" /\ MatchingClose(s, j) # 0 THEN j
  ELSE AnyBlockFrom(s, j + 1)

FirstBlock(s) ==
  IF WhereBlockFrom(s, 1) # 0 THEN WhereBlockFrom(s, 1) ELSE AnyBlockFrom(s, 1)

\* C19: the body that WHERE-body extraction returns is the content of the
\* first {...} block after a WHERE keyword, from its '{' to the '}' that
\* closes it, or of the first {...} block anywhere when no WHERE keyword is
\* followed by a block; without any block there is no body.
C19_FirstBlockBody ==
  /\ (top = "fix_query" /\ pc = "repair_start") =>
       /\ FirstBlock(q) # 0
       /\ body = SubSeq(q, FirstBlock(q) + 1, MatchingClose(q, FirstBlock(q)) - 1)
  /\ (top = "fix_query" /\ pc = "normalize" /\ head = <<>>) => FirstBlock(q) = 0

\* s begins with a and ends with b, the two not overlapping
Frames(s, a, b) ==
  /\ Len(s) >= Len(a) + Len(b)
  /\ SubSeq(s, 1, Len(a)) = a
  /\ SubSeq(s, Len(s) - Len(b) + 1, Len(s)) = b

\* C20: WHERE-body extraction partitions the query: head, body and tail put
\* together are the query, character for character; and stage 6 changes the
\* body only: the query handed to normalization is the same head, the
\* repaired body and the same tail.
C20_OnlyBodyChanged ==
  /\ (top = "fix_query" /\ pc \in {"repair_start", "loop"}) =>
       head \o body \o tail = q
  /\ (top = "fix_query" /\ pc = "normalize" /\ head # <<>>) =>
       /\ prev = head \o body \o tail
       /\ Frames(q, head, tail)
       /\ SubSeq(q, Len(head) + 1, Len(q) - Len(tail)) = smart_repair_where(body)
  /\ (top = "fix_query" /\ pc = "normalize" /\ head = <<>>) => passes = 5

\* '{?x}?x': the body lost its one clause between an unchanged head and an
\* unchanged tail
C20_Witness ==
  /\ top = "fix_query" /\ pc = "normalize"
  /\ head = <<"{">> /\ body = <<"?", "x">> /\ tail = <<"}", "?", "x">>
  /\ q = <<"{", "}", "?", "x">>

\* the depth split_clauses has after the first k characters of s
RECURSIVE DepthAfter(_, _)
DepthAfter(s, k) ==
  IF k = 0 THEN 0
  ELSE LET d == DepthAfter(s, k - 1)
       IN IF s[k] \in {"{", "(", "["} THEN d + 1
          ELSE IF s[k] \in {"}", ")", "]"} /\ d > 0 THEN d - 1
          ELSE d

\* the dots among the first n characters of s that stand at depth zero
TopLevelDots(s, n) == {k \in 1..n : s[k] = "." /\ DepthAfter(s, k) = 0}

\* the last top-level dot among the first n characters, 0 when there is none
LastCut(s, n) ==
  IF TopLevelDots(s, n) = {} THEN 0
  ELSE CHOOSE k \in TopLevelDots(s, n) : \A j \in TopLevelDots(s, n) : j <= k

\* the stripped, non-empty pieces of s between consecutive top-level dots
\* among its first n characters, from the piece that starts after position a
RECURSIVE ClausesBetween(_, _, _)
ClausesBetween(s, n, a) ==
  LET later == {k \in TopLevelDots(s, n) : k > a}
  IN IF later = {} THEN <<>>
     ELSE LET b     == CHOOSE k \in later : \A j \in later : k <= j
              piece == Strip(SubSeq(s, a + 1, b - 1))
          IN (IF piece # <<>> THEN <<piece>> ELSE <<>>) \o ClausesBetween(s, n, b)

\* C21: in split_clauses the depth is never negative at any step of the scan,
\* unbalanced closers included; a '.' ends a clause exactly when the depth is
\* zero (the buffer restarts after the last such dot, a '.' at a greater
\* depth stays in the buffer), the clauses collected are the stripped pieces
\* between those dots, and no empty clause is collected or returned.
C21_DepthAndDots ==
  top = "split_clauses" =>
    /\ scan.depth >= 0
    /\ scan.depth = DepthAfter(body, scan.n)
    /\ scan.buf = SubSeq(body, LastCut(body, scan.n) + 1, scan.n)
    /\ \A k \in 1..Len(scan.out) : scan.out[k] # <<>>
    /\ pc = "scan" => scan.out = ClausesBetween(body, scan.n, 0)
    /\ pc = "returned" =>
         /\ scan.out = ClausesBetween(body, Len(body), 0)
                         \o (IF Strip(scan.buf) # <<>> THEN <<Strip(scan.buf)>>
                             ELSE <<>>)
         /\ scan.out = split_clauses(body)

\* ').(.' was split into ')' and '(.': the closer left the depth at zero, the
\* first dot ended a clause and the dot inside the parenthesis did not
C21_Witness ==
  /\ top = "split_clauses" /\ pc = "returned"
  /\ body = <<")", ".", "(", ".">>
  /\ scan.out = << <<")">>, <<"(", ".">> >>
  /\ scan.depth = 1

\* no two white-space characters in a row
NoSpaceRun(s) == \A k \in 1..(Len(s) - 1) : ~(IsSpace(s[k]) /\ IsSpace(s[k + 1]))

\* the brace at position k has exactly one space on each side where it has a
\* neighbour
OneSpaceAround(s, k) ==
  /\ k > 1 => (s[k - 1] = " " /\ (k > 2 => ~IsSpace(s[k - 2])))
  /\ k < Len(s) => (s[k + 1] = " " /\ (k + 1 < Len(s) => ~IsSpace(s[k + 2])))

WellSpaced(s) ==
  /\ NoSpaceRun(s)
  /\ \A k \in 1..Len(s) : s[k] \in {"{", "}"} => OneSpaceAround(s, k)

\* C22: after keyword/whitespace normalization, and so in the output of
\* fix_query, no run of two or more white-space characters remains and every
\* '{' and '}' has exactly one space on each side where it has a neighbour,
\* adjacent and nested braces included.
C22_SingleSpaces ==
  /\ (top = "fix_query" /\ pc = "rebalance") => WellSpaced(q)
  /\ \A k \in 1..Len(out) : out[k].kind = "str" => WellSpaced(out[k].s)

\* C23: after bad-token cleanup a CONTAINS(...) call that had more than two
\* comma-separated arguments is left with exactly its first two arguments,
\* whatever the shape of the arguments, nested calls such as str(?x) included.
C23_ContainsTruncated ==
  (top = "fix_query" /\ pc = "where") =>
    \A args \in TokenListsOf({ <<"?","x">>, <<" ","a">>, <<"s","t","r","(","?","x",")">> },
                             MaxPieces) :
      (Len(args) > 2 /\ prev = ContainsQuery(args)) =>
        q = txtCONTAINS \o Strip(args[1]) \o <<",", " ">> \o Strip(args[2]) \o <<")">>

\* no variable token stands twice in a row
NoAdjacentDuplicate(tokens) ==
  \A k \in 1..(Len(tokens) - 1) :
    ~(tokens[k][1] = "?" /\ tokens[k] = tokens[k + 1])

\* C24: no triple in the output of clause repair holds the same variable
\* token twice in a row, neither in what a round of the loop appends nor in
\* the repaired body, also when fresh variables have been inserted.
C24_NoAdjacentDuplicate ==
  /\ (RoundDone /\ ~IsBlockKeyword(WrittenTokens[1])) =>
       \A k \in 1..Len(lastEmit) : NoAdjacentDuplicate(Tokenize(lastEmit[k]))
  /\ (/\ top = "smart_repair_where" /\ pc = "returned"
      /\ \A k \in 1..Len(clauses) : ~IsBlockKeyword(Tokenize(clauses[k])[1])) =>
       NoAdjacentDuplicate(Tokenize(q))

\* C26: every fresh variable ?vN that clause repair has inserted is distinct
\* from every variable of the body under repair.
C26_FreshIsNew ==
  (top = "smart_repair_where" /\ pc \in {"loop", "returned"}) =>
    \A n \in 1..nfresh :
      \A k \in 1..Len(Tokenize(body)) : Tokenize(body)[k] # FreshVar(n)

\* the three outcomes of a row, read from its cells in the two columns
IsNonEmptyRow(obj, err) == ~obj.na /\ obj.text # txtEmpty /\ err = ""
IsEmptyRow(obj, err) == ~obj.na /\ obj.text = txtEmpty /\ err = ""
IsErrorRow(obj, err) == obj.na /\ err # ""

\* the rows of the file at hand that have the given outcome
RowsWith(Outcome(_, _)) ==
  Cardinality({k \in 1..Len(runner.obj_values_col) :
                 Outcome(runner.obj_values_col[k], runner.error_col[k])})

\* the rows of the first n files that are data frames
RECURSIVE RowsOfFiles(_, _)
RowsOfFiles(files, n) ==
  IF n = 0 THEN 0
  ELSE RowsOfFiles(files, n - 1)
         + (IF files[n].kind = "csv" THEN files[n].nrows ELSE 0)

RECURSIVE PartsJoined(_, _)
PartsJoined(written, n) ==
  IF n = 0 THEN <<>> ELSE PartsJoined(written, n - 1) \o written[n].batch

\* the summed encoded size of the objects of a batch
RECURSIVE SizeOf(_, _)
SizeOf(sizes, batch) ==
  IF batch = <<>> THEN 0 ELSE sizes[Head(batch)] + SizeOf(sizes, Tail(batch))

C27_Idempotent ==
  \A k \in 1..Len(out) :
    out[k].kind = "str" =>
      /\ out[k].s = fix_query_text(rows[k].s)
      /\ fix_query_text(out[k].s) = out[k].s

\* C28: a WHERE body made only of well-formed triples (three tokens, a valid
\* subject, a predicate that is no number, top-level dots between them) is a
\* fixed point of clause repair: the same triples come out in the same order
\* with no token changed, dropped or added, IRIs and decimal literals with a
\* '.' in them included.
C28_WellFormedFixed ==
  (top = "smart_repair_where" /\ pc = "returned") =>
    \A l \in TripleListsUpTo(MaxTriples) : body = TripleBody(l) => q = body

\* C29: in the output of clause repair every clause that does not start with
\* a block keyword has exactly three white-space separated tokens, in what a
\* round of the loop appends as in the text returned, and the clauses stand
\* in the order of their source clauses: what a round appends goes to the end
\* of the repaired clauses.
C29_ThreeTokensInOrder ==
  /\ (RoundDone /\ ~IsBlockKeyword(WrittenTokens[1])) =>
       /\ \A k \in 1..Len(lastEmit) : Len(Tokenize(lastEmit[k])) = 3
       /\ Len(repaired) >= Len(lastEmit)
       /\ SubSeq(repaired, Len(repaired) - Len(lastEmit) + 1, Len(repaired)) = lastEmit
  /\ (top = "smart_repair_where" /\ pc = "returned") =>
       \A k \in 1..Len(split_clauses(q)) :
         LET t == Tokenize(split_clauses(q)[k])
         IN ~IsBlockKeyword(t[1]) => Len(t) = 3
====
